---- MODULE Spec2Model ----
(***************************************************************************)
(* CalmCompass (mental-health-agent): the screening scorers of             *)
(* screening.py, the suggestion resolver of resources.py and the           *)
(* check-in flow of app.py (a Streamlit script: every user interaction     *)
(* re-runs the script against the session state).                          *)
(*                                                                         *)
(* Python's None is modelled by None (-1) where an integer is expected     *)
(* (a score is never negative) and by NoneStr where a string is expected.  *)
(***************************************************************************)
EXTENDS Integers, Sequences, FiniteSets, TLC

VARIABLES
    session_state,  \* st.session_state: a record of the keys the flow reads or writes
    render,         \* what the last script run of the current page did (its log)
    coping_model,   \* whether ml/coping_action_model.joblib and its metadata load
    arg,    \* pure-function harness: the input the function is applied to
    call    \* pure-function harness: [fn, ret] of the last call (NoCall before)

vars == <<session_state, render, coping_model, arg, call>>

\* ---------------------------------------------------------------- values
None == -1
NoneStr == "None"

\* screening.py:67
PREFER_NOT_ANSWER == 4
\* screening.py:71  min(a, 3)
CAP == 3
\* screening.py:83, 97, 128, 142: the required lengths
PHQ2_LEN == 2
GAD2_LEN == 2
PHQ9_LEN == 9
GAD7_LEN == 7
PSS4_LEN == 4
\* screening.py:112  answers[8] (0-based) is the 9th item; sequences are 1-based
IDEATION_ITEM == 9
NEARLY_EVERY_DAY == 3

\* ---------------------------------------------------------------- bounds
MaxLen == 10           \* longest answer list drawn
MaxAnswerValue == 5    \* answer values drawn are 0..MaxAnswerValue
ExhaustiveLen == 4     \* lists up to this length are drawn exhaustively
MaxScore == 30         \* severity functions are applied to 0..MaxScore
MaxShortScore == 6     \* get_suggestion is applied to scores None, 0..MaxShortScore

AnswerValues == 0..MaxAnswerValue

\* Lists of length n: all of them up to ExhaustiveLen; beyond, every list that
\* differs from a constant list in at most two positions.
ListsOfLen(n) ==
    IF n <= ExhaustiveLen
    THEN [1..n -> AnswerValues]
    ELSE {[i \in 1..n |-> IF i = p THEN v ELSE IF i = q THEN w ELSE b] :
             p \in 1..n, q \in 1..n, v \in AnswerValues, w \in AnswerValues,
             b \in AnswerValues}

AnswerLists == UNION {ListsOfLen(n) : n \in 0..MaxLen}

\* A call either returns a value or raises.
Return(v) == [exc |-> "none", val |-> v]
Raise(e) == [exc |-> e, val |-> None]
NoCall == [fn |-> "none", ret |-> Return(None)]

\* ---------------------------------------------------------------- helpers
Min(a, b) == IF a < b THEN a ELSE b

RECURSIVE SumSeq(_)
SumSeq(s) == IF s = <<>> THEN 0 ELSE s[1] + SumSeq(Tail(s))

RECURSIVE FilterSeq(_, _)
\* the items of s that differ from x, in order
FilterSeq(s, x) ==
    IF s = <<>> THEN <<>>
    ELSE IF s[1] # x THEN <<s[1]>> \o FilterSeq(Tail(s), x)
    ELSE FilterSeq(Tail(s), x)

\* ---------------------------------------------------------------- screening.py
_cap_score(a) == IF a # PREFER_NOT_ANSWER THEN Min(a, CAP) ELSE 0

\* mutant: the skipped items are kept (scored 0) instead of filtered out
_scored_items_keep_skips(answers) ==
    [i \in 1..Len(answers) |-> _cap_score(answers[i])]

_scored_items(answers) ==
    LET kept == FilterSeq(answers, PREFER_NOT_ANSWER)
    IN  [i \in 1..Len(kept) |-> _cap_score(kept[i])]

score_phq2(answers) ==
    IF Len(answers) # PHQ2_LEN THEN Raise("ValueError")
    ELSE LET scored == _scored_items(answers)
             answered == Len(scored)
         IN  IF answered = 0 THEN Return(<<None, 0, PHQ2_LEN>>)
             ELSE Return(<<SumSeq(scored), answered, PHQ2_LEN>>)

\* mutant: only the first item is looked at
_has_skip_first(answers) == Len(answers) > 0 /\ answers[1] = PREFER_NOT_ANSWER

_has_skip(answers) == \E i \in 1..Len(answers) : answers[i] = PREFER_NOT_ANSWER

score_phq9(answers) ==
    IF Len(answers) # PHQ9_LEN THEN None
    ELSE IF _has_skip(answers) THEN None
    ELSE SumSeq([i \in 1..Len(answers) |-> _cap_score(answers[i])])

\* mutant: the band boundaries are exclusive
phq9_severity_strict(score) ==
    IF score < 4 THEN "minimal"
    ELSE IF score < 9 THEN "mild"
    ELSE IF score < 14 THEN "moderate"
    ELSE IF score < 19 THEN "moderately_severe"
    ELSE "severe"

phq9_severity(score) ==
    IF score <= 4 THEN "minimal"
    ELSE IF score <= 9 THEN "mild"
    ELSE IF score <= 14 THEN "moderate"
    ELSE IF score <= 19 THEN "moderately_severe"
    ELSE "severe"

\* mutant: any value from 3 up, the sentinel included, raises the flag
phq9_has_suicidal_ideation_ge(answers) ==
    Len(answers) >= PHQ9_LEN /\ answers[IDEATION_ITEM] >= NEARLY_EVERY_DAY

phq9_has_suicidal_ideation(answers) ==
    Len(answers) >= PHQ9_LEN /\ answers[IDEATION_ITEM] = NEARLY_EVERY_DAY

score_gad2(answers) ==
    IF Len(answers) # GAD2_LEN THEN Raise("ValueError")
    ELSE LET scored == _scored_items(answers)
             answered == Len(scored)
         IN  IF answered = 0 THEN Return(<<None, 0, GAD2_LEN>>)
             ELSE Return(<<SumSeq(scored), answered, GAD2_LEN>>)

score_gad7(answers) ==
    IF Len(answers) # GAD7_LEN THEN None
    ELSE IF _has_skip(answers) THEN None
    ELSE SumSeq([i \in 1..Len(answers) |-> _cap_score(answers[i])])

gad7_severity(score) ==
    IF score <= 4 THEN "minimal"
    ELSE IF score <= 9 THEN "mild"
    ELSE IF score <= 14 THEN "moderate"
    ELSE "severe"

\* mutant: the forward items are reversed instead
PSS4_REVERSE_swapped == <<TRUE, FALSE, FALSE, TRUE>>

\* PSS4_REVERSE = [False, True, True, False]
PSS4_REVERSE == <<FALSE, TRUE, TRUE, FALSE>>

score_pss4(answers) ==
    IF Len(answers) # PSS4_LEN THEN None
    ELSE IF _has_skip(answers) THEN None
    ELSE SumSeq([i \in 1..Len(answers) |->
                    IF PSS4_REVERSE[i] THEN CAP - _cap_score(answers[i])
                    ELSE _cap_score(answers[i])])

pss4_level(score) ==
    IF score <= 4 THEN "low"
    ELSE IF score <= 8 THEN "moderate"
    ELSE "high"

is_crisis_by_score(phq2_answers) ==
    IF Len(phq2_answers) < 2 THEN FALSE
    ELSE phq2_answers[2] = NEARLY_EVERY_DAY

is_crisis_phq9(phq9_answers) == phq9_has_suicidal_ideation(phq9_answers)

is_crisis(phq2_answers) == is_crisis_by_score(phq2_answers)

\* ---------------------------------------------------------------- context.py
FEELING_TODAY_OPTIONS ==
    <<"Overwhelmed", "Anxious", "Low energy", "Sad", "Stressed", "Not sure">>
WORKLOAD_OPTIONS == <<"Manageable", "A bit much", "Overwhelming", "Prefer not to say">>
\* the values the two tags take: the options, and the "Okay" the weather tiles add
FeelingValues == {FEELING_TODAY_OPTIONS[i] : i \in 1..Len(FEELING_TODAY_OPTIONS)} \cup {"Okay"}
WorkloadValues == {WORKLOAD_OPTIONS[i] : i \in 1..Len(WORKLOAD_OPTIONS)}

\* A context is a dict over the tags the decision code reads; a key that is
\* not set is not in its domain.  (sleep_last_night, social_today and
\* physical_activity are stored by the app and read by no decision.)
CONTEXT_KEYS == {"feeling_today", "workload_stress"}
EmptyDict == [k \in {} |-> NoneStr]
\* dict.get(k): None when the key is missing
Get(d, k) == IF k \in DOMAIN d THEN d[k] ELSE NoneStr
\* d[k] = v
Put(d, k, v) == [x \in (DOMAIN d) \cup {k} |-> IF x = k THEN v ELSE d[x]]

\* An optional dict argument: NoneCtx is Python's None, Some(d) a dict.
NoneCtx == <<>>
Some(d) == <<d>>

\* ---------------------------------------------------------------- resources.py
\* The static tables; each text is abbreviated to its opening words.
SUGGESTION_ENGINE ==
    [minimal |->
        [action |-> "Do one small thing in the next 10 minutes",
         next_steps |-> <<"This week: pick one consistent bedtime",
                          "Save 988 and Crisis Text Line in your phone">>],
     elevated |->
        [action |-> "Right now: tell one person you trust",
         next_steps |-> <<"This week: look up one therapist or counselor",
                          "If you have thoughts of hurting yourself, call or text 988">>],
     elevated_anxiety |->
        [action |-> "Try 4-7-8 breathing",
         next_steps |-> <<"Name it: I'm having a wave of worry",
                          "Write down the one thing that would help most">>],
     elevated_mood |->
        [action |-> "Reach out to one person",
         next_steps |-> <<"One tiny step counts",
                          "This week: consider sharing how you feel">>],
     burnout |->
        [action |-> "You're not lazy, you're overloaded",
         next_steps |-> <<"Pick one thing to drop or postpone this week",
                          "Block 15 minutes of break in your calendar">>]]

UNDERSTANDING_LINES ==
    [minimal |-> "Your answers suggest you've been doing okay lately",
     elevated |-> "You've been carrying more than usual",
     incomplete |-> "You skipped some answers, that's okay"]

REASSURANCE_LINE == "You don't have to do everything. One small step is enough."
SUPPORT_LINE == "988 and Crisis Text Line are there 24/7"
PARTIAL_NOTE == "Some questions were skipped, so this is a general guide."

\* mutant: the burnout override is tried after the anxiety and mood bands
band_of_burnout_last(phq2_score, gad2_score, ctx) ==
    LET elevated_phq == phq2_score # None /\ phq2_score >= 3
        elevated_gad == gad2_score # None /\ gad2_score >= 3
        elevated == elevated_phq \/ elevated_gad
    IN  IF elevated /\ elevated_gad /\ ~elevated_phq THEN "elevated_anxiety"
        ELSE IF elevated /\ elevated_phq THEN "elevated_mood"
        ELSE IF elevated THEN "elevated"
        ELSE IF /\ Get(ctx, "workload_stress") \in {"A bit much", "Overwhelming"}
                /\ Get(ctx, "feeling_today") \in {"Low energy", "Overwhelmed", "Stressed"}
             THEN "burnout"
        ELSE "minimal"

\* mutant: the anxiety band does not ask that the mood score is not elevated
band_of_anxiety_first(phq2_score, gad2_score, ctx) ==
    LET elevated_phq == phq2_score # None /\ phq2_score >= 3
        elevated_gad == gad2_score # None /\ gad2_score >= 3
        elevated == elevated_phq \/ elevated_gad
    IN  IF /\ Get(ctx, "workload_stress") \in {"A bit much", "Overwhelming"}
           /\ \/ Get(ctx, "feeling_today") \in {"Low energy", "Overwhelmed", "Stressed"}
              \/ elevated
        THEN "burnout"
        ELSE IF elevated /\ elevated_gad THEN "elevated_anxiety"
        ELSE IF elevated /\ elevated_phq THEN "elevated_mood"
        ELSE IF elevated THEN "elevated"
        ELSE "minimal"

\* mutant: the mood band asks that the anxiety score is not elevated
band_of_mood_alone(phq2_score, gad2_score, ctx) ==
    LET elevated_phq == phq2_score # None /\ phq2_score >= 3
        elevated_gad == gad2_score # None /\ gad2_score >= 3
        elevated == elevated_phq \/ elevated_gad
    IN  IF /\ Get(ctx, "workload_stress") \in {"A bit much", "Overwhelming"}
           /\ \/ Get(ctx, "feeling_today") \in {"Low energy", "Overwhelmed", "Stressed"}
              \/ elevated
        THEN "burnout"
        ELSE IF elevated /\ elevated_gad /\ ~elevated_phq THEN "elevated_anxiety"
        ELSE IF elevated /\ elevated_phq /\ ~elevated_gad THEN "elevated_mood"
        ELSE IF elevated THEN "elevated"
        ELSE "minimal"

\* get_suggestion, lines 130-148: the band
band_of(phq2_score, gad2_score, ctx) ==
    LET elevated_phq == phq2_score # None /\ phq2_score >= 3
        elevated_gad == gad2_score # None /\ gad2_score >= 3
        elevated == elevated_phq \/ elevated_gad
    IN  IF /\ Get(ctx, "workload_stress") \in {"A bit much", "Overwhelming"}
           /\ \/ Get(ctx, "feeling_today") \in {"Low energy", "Overwhelmed", "Stressed"}
              \/ elevated
        THEN "burnout"
        ELSE IF elevated /\ elevated_gad /\ ~elevated_phq THEN "elevated_anxiety"
        ELSE IF elevated /\ elevated_phq THEN "elevated_mood"
        ELSE IF elevated THEN "elevated"
        ELSE "minimal"

\* mutant: one absent score is enough for the "incomplete" line
severity_of_any_unknown(phq2_score, gad2_score) ==
    LET elevated_phq == phq2_score # None /\ phq2_score >= 3
        elevated_gad == gad2_score # None /\ gad2_score >= 3
        any_unknown == phq2_score = None \/ gad2_score = None
    IN  IF any_unknown THEN "incomplete"
        ELSE IF elevated_phq \/ elevated_gad THEN "elevated"
        ELSE "minimal"

\* get_suggestion, lines 130-134: the key of the understanding line
severity_of(phq2_score, gad2_score) ==
    LET elevated_phq == phq2_score # None /\ phq2_score >= 3
        elevated_gad == gad2_score # None /\ gad2_score >= 3
        both_unknown == phq2_score = None /\ gad2_score = None
    IN  IF both_unknown THEN "incomplete"
        ELSE IF elevated_phq \/ elevated_gad THEN "elevated"
        ELSE "minimal"

\* the bundle before the note is attached (lines 149-156)
Bundle(severity, action, next_steps) ==
    [understanding |->
        IF severity \in DOMAIN UNDERSTANDING_LINES
        THEN UNDERSTANDING_LINES[severity] ELSE UNDERSTANDING_LINES["minimal"],
     action |-> action,
     reassurance |-> REASSURANCE_LINE,
     next_steps |-> next_steps,
     support |-> SUPPORT_LINE]

\* out["partial_note"] = PARTIAL_NOTE
WithNote(out) ==
    [k \in (DOMAIN out) \cup {"partial_note"} |->
        IF k = "partial_note" THEN PARTIAL_NOTE ELSE out[k]]

\* mutant: the note is attached whenever a score is absent, both absent included
get_suggestion_note_any(phq2_score, gad2_score, context) ==
    LET ctx == IF context = NoneCtx THEN EmptyDict ELSE context[1]
        entry == SUGGESTION_ENGINE[band_of(phq2_score, gad2_score, ctx)]
        out == Bundle(severity_of(phq2_score, gad2_score), entry.action, entry.next_steps)
    IN  IF phq2_score = None \/ gad2_score = None THEN WithNote(out) ELSE out

\* mutant: the next steps are always those of the minimal band
get_suggestion_mixed(phq2_score, gad2_score, context) ==
    LET ctx == IF context = NoneCtx THEN EmptyDict ELSE context[1]
        entry == SUGGESTION_ENGINE[band_of(phq2_score, gad2_score, ctx)]
        out == Bundle(severity_of(phq2_score, gad2_score), entry.action,
                      SUGGESTION_ENGINE["minimal"].next_steps)
    IN  IF (phq2_score = None) # (gad2_score = None) THEN WithNote(out) ELSE out

get_suggestion(phq2_score, gad2_score, context) ==
    LET ctx == IF context = NoneCtx THEN EmptyDict ELSE context[1]
        both_unknown == phq2_score = None /\ gad2_score = None
        any_unknown == phq2_score = None \/ gad2_score = None
        severity == severity_of(phq2_score, gad2_score)
        band == band_of(phq2_score, gad2_score, ctx)
        entry == IF band \in DOMAIN SUGGESTION_ENGINE
                 THEN SUGGESTION_ENGINE[band] ELSE SUGGESTION_ENGINE["minimal"]
        out == [understanding |->
                    IF severity \in DOMAIN UNDERSTANDING_LINES
                    THEN UNDERSTANDING_LINES[severity]
                    ELSE UNDERSTANDING_LINES["minimal"],
                action |-> entry.action,
                reassurance |-> REASSURANCE_LINE,
                next_steps |-> entry.next_steps,
                support |-> SUPPORT_LINE]
    IN  IF any_unknown /\ ~both_unknown
        THEN [k \in (DOMAIN out) \cup {"partial_note"} |->
                 IF k = "partial_note" THEN PARTIAL_NOTE ELSE out[k]]
        ELSE out

\* ---------------------------------------------------------------- ml/actions.py
ACTION_IDS ==
    <<"breathing_60s", "grounding_54321", "reframe_prompt", "tiny_task",
      "short_walk", "reach_out">>

\* `kw in value.lower()`: the keywords of suggest_action_rules that occur in
\* the lowered value, for the values the options of context.py and app.py
\* offer; None (or "") and every other value hold none of them.
KeywordsIn(value) ==
    CASE value = "Overwhelmed" -> {"overwhelm", "overwhelmed"}
      [] value = "Anxious" -> {"anxious"}
      [] value = "Low energy" -> {"low"}
      [] value = "Sad" -> {"sad"}
      [] value = "Stressed" -> {"stressed", "stress"}
      [] value = "Overwhelming" -> {"overwhelm", "overwhelming"}
      \* values no option offers, as a caller may pass them
      [] value = "Anxiety" -> {"anxiety"}
      [] value = "Burnout" -> {"burnout"}
      [] value = "Work stress" -> {"stress"}
      [] value = "anxious" -> {"anxious"}
      [] value = "sadness" -> {"sad"}
      [] OTHER -> {}

\* mutant: the low-mood rule is tried before the overwhelm rule
suggest_action_rules_low_first(phq2_score, gad2_score, feeling_today, workload_stress, text_emotion_label) ==
    IF phq2_score = None \/ gad2_score = None THEN Raise("TypeError")
    ELSE LET elevated_phq == phq2_score >= 3
             elevated_gad == gad2_score >= 3
             feeling == KeywordsIn(feeling_today)
             workload == KeywordsIn(workload_stress)
             emotion == KeywordsIn(text_emotion_label)
         IN  IF elevated_gad \/ "anxious" \in emotion \/ "anxiety" \in feeling
                 THEN Return("breathing_60s")
             ELSE IF "low" \in feeling \/ "sad" \in feeling \/ elevated_phq
                 THEN Return("reach_out")
             ELSE IF "overwhelm" \in feeling \/ "overwhelmed" \in feeling
                 THEN Return("reframe_prompt")
             ELSE IF "stressed" \in feeling \/ "stress" \in workload
                 THEN Return("short_walk")
             ELSE IF "burnout" \in workload \/ "overwhelming" \in workload
                 THEN Return("tiny_task")
             ELSE Return("breathing_60s")

\* `phq2_score >= 3` on None raises TypeError
suggest_action_rules(phq2_score, gad2_score, feeling_today, workload_stress, text_emotion_label) ==
    IF phq2_score = None \/ gad2_score = None THEN Raise("TypeError")
    ELSE LET elevated_phq == phq2_score >= 3
             elevated_gad == gad2_score >= 3
             feeling == KeywordsIn(feeling_today)
             workload == KeywordsIn(workload_stress)
             emotion == KeywordsIn(text_emotion_label)
         IN  IF elevated_gad \/ "anxious" \in emotion \/ "anxiety" \in feeling
                 THEN Return("breathing_60s")
             ELSE IF "overwhelm" \in feeling \/ "overwhelmed" \in feeling
                 THEN Return("reframe_prompt")
             ELSE IF "low" \in feeling \/ "sad" \in feeling \/ elevated_phq
                 THEN Return("reach_out")
             ELSE IF "stressed" \in feeling \/ "stress" \in workload
                 THEN Return("short_walk")
             ELSE IF "burnout" \in workload \/ "overwhelming" \in workload
                 THEN Return("tiny_task")
             ELSE Return("breathing_60s")

\* ---------------------------------------------------------------- ml/coping_recommender.py
\* Confidences are kept in percent: MIN_CONFIDENCE = 0.35
MIN_CONFIDENCE == 35

\* mutant: the model's action is returned whatever its confidence
recommend_action_no_threshold(phq2_score, gad2_score, feeling_today, workload_stress, need_most, text_emotion_label, pipe, pred) ==
    LET rules == suggest_action_rules(phq2_score, gad2_score, feeling_today,
                                      workload_stress, text_emotion_label)
        fallback == IF rules.exc # "none" THEN rules ELSE Return(<<rules.val, 0>>)
    IN  IF pipe # "present" THEN fallback
        ELSE IF pred.raises THEN fallback
        ELSE Return(<<IF pred.idx < Len(ACTION_IDS) THEN ACTION_IDS[pred.idx + 1]
                      ELSE ACTION_IDS[1],
                      pred.conf>>)

\* pipe is "present" when the model and its metadata load, "absent" otherwise;
\* pred is what pipe.predict / predict_proba do on the row: raise, or give the
\* class index idx with confidence conf.
recommend_action(phq2_score, gad2_score, feeling_today, workload_stress, need_most, text_emotion_label, pipe, pred) ==
    LET rules == suggest_action_rules(phq2_score, gad2_score, feeling_today,
                                      workload_stress, text_emotion_label)
        fallback == IF rules.exc # "none" THEN rules ELSE Return(<<rules.val, 0>>)
    IN  IF pipe # "present" THEN fallback
        ELSE IF pred.raises THEN fallback
        ELSE IF pred.conf < MIN_CONFIDENCE THEN fallback
        ELSE Return(<<IF pred.idx < Len(ACTION_IDS) THEN ACTION_IDS[pred.idx + 1]
                      ELSE ACTION_IDS[1],
                      pred.conf>>)

\* ---------------------------------------------------------------- ml/feedback_schema.py
HELPED_SCORE_MAP == [yes |-> 2, a_little |-> 1, not_really |-> 0]

\* `x or ""`
OrEmpty(x) == IF x = NoneStr THEN "" ELSE x

\* lines 13-26
FEEDBACK_CSV_COLUMNS ==
    <<"timestamp_date", "phq2_score", "gad2_score", "feeling_today",
      "workload_stress", "need_most", "text_emotion_label", "action_suggested",
      "action_taken", "helped_score", "ml_used", "confidence">>

\* date.today().isoformat(): the day of the visit
TODAY == "2026-01-01"

\* mutant: an unknown answer counts as "not really"
build_feedback_row_default_zero(phq2_score, gad2_score, feeling_today, workload_stress, need_most, text_emotion_label, action_suggested, action_taken, result_help, ml_used, confidence) ==
    [timestamp_date |-> TODAY,
     phq2_score |-> phq2_score,
     gad2_score |-> gad2_score,
     feeling_today |-> OrEmpty(feeling_today),
     workload_stress |-> OrEmpty(workload_stress),
     need_most |-> OrEmpty(need_most),
     text_emotion_label |-> OrEmpty(text_emotion_label),
     action_suggested |-> action_suggested,
     action_taken |-> action_taken,
     helped_score |-> IF result_help \in DOMAIN HELPED_SCORE_MAP
                      THEN HELPED_SCORE_MAP[result_help] ELSE 0,
     ml_used |-> IF ml_used THEN 1 ELSE 0,
     confidence |-> confidence]

\* lines 32-59 (confidence is in percent, so round(confidence, 4) changes nothing)
build_feedback_row(phq2_score, gad2_score, feeling_today, workload_stress, need_most, text_emotion_label, action_suggested, action_taken, result_help, ml_used, confidence) ==
    [timestamp_date |-> TODAY,
     phq2_score |-> phq2_score,
     gad2_score |-> gad2_score,
     feeling_today |-> OrEmpty(feeling_today),
     workload_stress |-> OrEmpty(workload_stress),
     need_most |-> OrEmpty(need_most),
     text_emotion_label |-> OrEmpty(text_emotion_label),
     action_suggested |-> action_suggested,
     action_taken |-> action_taken,
     helped_score |-> IF result_help \in DOMAIN HELPED_SCORE_MAP
                      THEN HELPED_SCORE_MAP[result_help] ELSE 1,
     ml_used |-> IF ml_used THEN 1 ELSE 0,
     confidence |-> confidence]

\* line 68: {k: row.get(k, "") for k in FEEDBACK_CSV_COLUMNS}, written in the
\* order of fieldnames
CsvLine(row) ==
    [i \in 1..Len(FEEDBACK_CSV_COLUMNS) |->
        IF FEEDBACK_CSV_COLUMNS[i] \in DOMAIN row
        THEN row[FEEDBACK_CSV_COLUMNS[i]] ELSE ""]

\* lines 62-69: the header line, then one line of cells per row
feedback_rows_to_csv(feedback_rows) ==
    [header |-> FEEDBACK_CSV_COLUMNS,
     lines |-> [n \in 1..Len(feedback_rows) |-> CsvLine(feedback_rows[n])]]

\* ---------------------------------------------------------------- scripts/train_coping_recommender.py
\* line 43, in hundredths: {2: 2.0, 1: 1.0, 0: 0.25}
HELPED_TO_WEIGHT == [s \in 0..2 |-> IF s = 2 THEN 200 ELSE IF s = 1 THEN 100 ELSE 25]

\* line 77: HELPED_TO_WEIGHT.get(int(s) if s != "" else 1, 1.0); None is the
\* empty cell
sample_weight(s) ==
    LET key == IF s # None THEN s ELSE 1
    IN  IF key \in DOMAIN HELPED_TO_WEIGHT THEN HELPED_TO_WEIGHT[key] ELSE 100

\* ---------------------------------------------------------------- ml/inference.py
MIN_WORDS_FOR_ML == 3

\* len(text.split()) and text.strip() of the sentences typed in the flow
WordCount(text) ==
    CASE text = "so tired" -> 2
      [] text = "I feel sad today" -> 4
      [] OTHER -> 0
Strip(text) == IF text = "  " THEN "" ELSE text

\* ---------------------------------------------------------------- ml/inference.py
EMOTION_TO_STATE ==
    [sadness |-> "low_mood", joy |-> "ok", love |-> "ok", anger |-> "stress",
     fear |-> "anxiety", surprise |-> "stress"]

\* state -> <<understanding, action>>, each text abbreviated to its opening
\* words; the actions of low_mood, anxiety and ok are word for word those of
\* the elevated_mood, elevated_anxiety and minimal bands of SUGGESTION_ENGINE
EMOTION_TAILORED ==
    [low_mood |-> <<"What you wrote sounds like it might reflect low mood or sadness",
                    "Reach out to one person">>,
     anxiety |-> <<"What you wrote might reflect worry or anxiety",
                   "Try 4-7-8 breathing">>,
     stress |-> <<"What you wrote might reflect stress or frustration",
                  "Step away for 2 minutes">>,
     ok |-> <<"It's good you're checking in",
              "Do one small thing in the next 10 minutes">>]

\* MIN_CONFIDENCE of ml/inference.py, in percent
INFERENCE_MIN_CONFIDENCE == 35

\* What the pipeline loader and the pipeline do when asked: the loader returns
\* None ("none"), raises, or gives a pipeline ("pipe"); the pipeline raises,
\* returns an empty list, or a row with a label and a score (in percent).
EmotionRun(loader, out, label, score) ==
    [loader |-> loader, out |-> out, label |-> label, score |-> score]
Unavailable == EmotionRun("none", "raises", "", 0)
Says(label, score) == EmotionRun("pipe", "row", label, score)

\* (label or "").strip().lower(), for the labels a row may carry
LowerStrip(label) ==
    CASE label = "JOY " -> "joy"
      [] label = NoneStr -> ""
      [] OTHER -> label

\* a call of predict_emotion gives its pair and what it invoked on the way
Predicted(label, conf, invoked) == [label |-> label, conf |-> conf, invoked |-> invoked]

\* mutant: a label outside EMOTION_TO_STATE is returned as it is
predict_emotion_any_label(text, pipe) ==
    IF text = NoneStr \/ Strip(text) = "" THEN Predicted(NoneStr, 0, {})
    ELSE IF WordCount(Strip(text)) < MIN_WORDS_FOR_ML THEN Predicted(NoneStr, 0, {})
    ELSE IF pipe.loader = "raises" THEN Predicted(NoneStr, 0, {"pipe_loader"})
    ELSE IF pipe.loader = "none" THEN Predicted(NoneStr, 0, {"pipe_loader"})
    ELSE IF pipe.out = "raises" THEN Predicted(NoneStr, 0, {"pipe_loader", "pipe"})
    ELSE IF pipe.out = "empty" THEN Predicted(NoneStr, 0, {"pipe_loader", "pipe"})
    ELSE Predicted(LowerStrip(pipe.label), pipe.score, {"pipe_loader", "pipe"})

\* predict_emotion(text, pipe_loader): text[:512] keeps the short texts whole
predict_emotion(text, pipe) ==
    IF text = NoneStr \/ Strip(text) = "" THEN Predicted(NoneStr, 0, {})
    ELSE IF WordCount(Strip(text)) < MIN_WORDS_FOR_ML THEN Predicted(NoneStr, 0, {})
    ELSE IF pipe.loader = "raises" THEN Predicted(NoneStr, 0, {"pipe_loader"})
    ELSE IF pipe.loader = "none" THEN Predicted(NoneStr, 0, {"pipe_loader"})
    ELSE IF pipe.out = "raises" THEN Predicted(NoneStr, 0, {"pipe_loader", "pipe"})
    ELSE IF pipe.out = "empty" THEN Predicted(NoneStr, 0, {"pipe_loader", "pipe"})
    ELSE LET label == LowerStrip(pipe.label)
         IN  IF label \notin DOMAIN EMOTION_TO_STATE
             THEN Predicted(NoneStr, 0, {"pipe_loader", "pipe"})
             ELSE Predicted(label, pipe.score, {"pipe_loader", "pipe"})

\* EMOTION_TAILORED.get(state) if state else None; None is the empty tuple
get_emotion_tailored_response(state) ==
    IF state # NoneStr /\ state # "" /\ state \in DOMAIN EMOTION_TAILORED
    THEN EMOTION_TAILORED[state] ELSE <<>>

\* EMOTION_TO_STATE.get(label) if label else None
state_from_emotion_label(label) ==
    IF label # NoneStr /\ label # "" /\ label \in DOMAIN EMOTION_TO_STATE
    THEN EMOTION_TO_STATE[label] ELSE NoneStr

\* ---------------------------------------------------------------- app.py: session state
SELF_HARM_CHOICES == <<"No", "Yes", "Prefer not to say">>
WEATHER_TO_CONTEXT ==
    [Clear |-> "Okay", Cloudy |-> "Not sure", Windy |-> "Stressed",
     Foggy |-> "Not sure", Stormy |-> "Overwhelmed"]
PATIENCE_TAPS == 5
GAMES == {"breathing_game", "memory_game", "shell_game"}

\* What the user picks where the flow is explored with fewer than all options.
\* The survey radios offer range(len(OPTIONS)) = 0..4 and stand on 0 ("Not at
\* all") until touched.
Mood0Picks == {PREFER_NOT_ANSWER}
Mood1Picks == {NEARLY_EVERY_DAY, PREFER_NOT_ANSWER}
Worry0Picks == {PREFER_NOT_ANSWER}
Worry1Picks == {PREFER_NOT_ANSWER}
WeatherPicks == {"Stormy"}
DeepFeelingPicks == {"Low energy"}
WorkloadPicks == {"Overwhelming"}
SentencePicks == {"I feel sad today"}
StartNowPicks == {"reach_out"}
MaxFeedbackRows == 1
\* interactions explored on one visit of the results page
MaxResultsReruns == 1
MaxVisitReruns == 3

\* init_state (the defaults of the keys modelled), plus the keys the script
\* adds later, absent at first: deep_feeling (the "go deeper" feeling
\* selectbox), deep_suggestion and show_grounding.  A list of timestamps
\* (game_clicks) is kept as its length; an absent summary or suggestion is the
\* empty tuple, a stored summary the tuple of a text that is not spelled out.
InitState ==
    [step |-> "intro",
     phq2 |-> <<>>, gad2 |-> <<>>,
     context |-> EmptyDict,
     one_sentence |-> "",
     self_harm |-> NoneStr,
     save_session |-> FALSE,
     saved_summary |-> <<>>,
     game_clicks |-> 0,
     patience_game_done |-> FALSE,
     inner_weather |-> NoneStr,
     result_help |-> NoneStr,
     feedback_opt_in |-> FALSE,
     feedback_rows |-> <<>>,
     results_suggested_action |-> NoneStr,
     results_ml_used |-> FALSE,
     results_ml_confidence |-> 0,
     results_action_taken |-> NoneStr,
     deep_feeling |-> NoneStr,
     deep_suggestion |-> <<>>,
     show_grounding |-> FALSE]

\* What a results run computed for its panel: the two display texts and
\* ml_used (lines 827-840), the reassurance and support of the panel (867) and
\* the next steps listed (992), and the "Updated suggestion" block when there is
\* one (1062-1067); nothing on a run that never got there.
NoDisplay ==
    [understanding |-> "", action |-> "", ml_used |-> FALSE,
     reassurance |-> "", support |-> "", next_steps |-> <<>>, updated |-> <<>>]
Display(d, suggestion, listed) ==
    [understanding |-> d.understanding, action |-> d.action, ml_used |-> d.ml_used,
     reassurance |-> suggestion.reassurance, support |-> suggestion.support,
     next_steps |-> IF listed THEN suggestion.next_steps ELSE <<>>, updated |-> <<>>]
\* lines 1062-1067: the stored deep_suggestion is shown by its action and its
\* next steps
UpdatedBlock(deep_suggestion) ==
    IF deep_suggestion # <<>>
    THEN <<[action |-> deep_suggestion[1].action,
            next_steps |-> deep_suggestion[1].next_steps]>>
    ELSE <<>>

\* The log of a script run: the page it drew, the branch of the results page,
\* the functions it called, what it put on the page, the exception that ended
\* it ("none" when it ran to its end), how many interactions the page has
\* answered since it was entered (counted on the results page), and what the
\* results panel was computed to show.
Log(step, branch, calls, outputs, error) ==
    [step |-> step, branch |-> branch, calls |-> calls, outputs |-> outputs,
     error |-> error, reruns |-> 0, display |-> NoDisplay]
PlainLog(step) == Log(step, "none", {}, {}, "none")

\* A script run yields the session state it leaves and its log.
Ran(s, log) == [ss |-> s, log |-> log]

\* _go_to_step: the step changes and the script re-runs (step_times,
\* step_entered_at and render_nonce only feed the animation and the pace note).
_go_to_step(s, step_name) == [s EXCEPT !.step = step_name]

\* radio default: answers[i] if present, else 0, capped at the last option
RadioDefault(answers, i) ==
    Min(IF Len(answers) >= i THEN answers[i] ELSE 0, PREFER_NOT_ANSWER)

\* mood_0 / worry_0: answers = [sel] + (answers[1:] if len(answers) > 1 else [0])
SetFirst(answers, sel) ==
    <<sel>> \o (IF Len(answers) > 1 THEN Tail(answers) ELSE <<0>>)
\* mutant: the second answer is appended to whatever is stored
SetSecond_appends(answers, sel) ==
    (IF Len(answers) >= 1 THEN answers ELSE <<0>>) \o <<sel>>
\* mood_1 / worry_1: answers = (answers[:1] if len(answers) >= 1 else [0]) + [sel]
SetSecond(answers, sel) ==
    (IF Len(answers) >= 1 THEN <<answers[1]>> ELSE <<0>>) \o <<sel>>

\* answers[:2]
Prefix2(answers) == SubSeq(answers, 1, Min(2, Len(answers)))

\* ---------------------------------------------------------------- app.py: the results step
\* lines 139-142: the pair as a dict, None when there is no pair
TailoredDict(tailored) ==
    IF tailored # <<>>
    THEN <<[understanding |-> tailored[1], action |-> tailored[2]]>> ELSE <<>>
\* lines 136-139: no state for the label gives None
TailoredState(state) ==
    IF state = NoneStr THEN <<>> ELSE TailoredDict(get_emotion_tailored_response(state))
\* lines 134-136: r is the (label, conf) of predict_emotion
TailoredFor(r) ==
    IF r.label = NoneStr \/ r.label = "" \/ r.conf < INFERENCE_MIN_CONFIDENCE
    THEN <<>>
    ELSE TailoredState(state_from_emotion_label(r.label))
\* _predict_emotion_cached, lines 130-142: None (the empty tuple) or the
\* one-element tuple of the dict {understanding, action}
_predict_emotion_cached(text, pipe) == TailoredFor(predict_emotion(text, pipe))

\* mutant: only the understanding is taken from the tailored pair
results_tailoring_understanding_only(suggestion, stored_sentence, pipe) ==
    LET one_sentence == Strip(stored_sentence)
        ml_tailored == IF one_sentence # ""
                       THEN _predict_emotion_cached(one_sentence, pipe) ELSE <<>>
    IN  IF ml_tailored # <<>>
        THEN [understanding |-> ml_tailored[1].understanding,
              action |-> suggestion.action, ml_used |-> TRUE]
        ELSE [understanding |-> suggestion.understanding,
              action |-> suggestion.action, ml_used |-> FALSE]

\* lines 825-840: display_understanding, display_action and ml_used.
\* lines 832-840: both texts from the tailored dict, or both from the suggestion
ApplyTailored(suggestion, ml_tailored) ==
    IF ml_tailored # <<>>
    THEN [understanding |-> ml_tailored[1].understanding,
          action |-> ml_tailored[1].action, ml_used |-> TRUE]
    ELSE [understanding |-> suggestion.understanding,
          action |-> suggestion.action, ml_used |-> FALSE]
\* lines 827-831: the model is asked only about a sentence that is not blank
results_tailoring(suggestion, stored_sentence, pipe) ==
    ApplyTailored(suggestion,
                  IF Strip(stored_sentence) # ""
                  THEN _predict_emotion_cached(Strip(stored_sentence), pipe) ELSE <<>>)

\* The widgets of the normal results page as they stand when nobody touches
\* them: each starts from the session value it is built from.
Widgets(s) ==
    [deep_feeling |-> IF s.deep_feeling = NoneStr THEN "" ELSE s.deep_feeling,
     workload |-> IF Get(s.context, "workload_stress") \in WorkloadValues
                  THEN Get(s.context, "workload_stress") ELSE WORKLOAD_OPTIONS[1],
     one_sentence |-> s.one_sentence,
     feedback_opt_in |-> s.feedback_opt_in]

CrisisOutputs == {"crisis_message", "grounding_script", "back_to_home"}

\* lines 806-817
RenderCrisis(s) ==
    Ran(s, Log("results", "crisis", {"get_crisis_message_immediate"},
               CrisisOutputs, "none"))

\* lines 905-1106 with no action in progress: the action list, the opt-in box,
\* the summary, "go deeper", the coping plan.  p and g are the score triples,
\* calls and outputs what the run did so far.
NormalTail(s, w, env, p, g, suggestion, calls, outputs, display) ==
    LET s2 == [s EXCEPT !.feedback_opt_in = w.feedback_opt_in]
        summary_text == "summary_text"
        s3 == IF s2.save_session
              THEN [s2 EXCEPT !.saved_summary = <<summary_text>>] ELSE s2
        ctx1 == IF w.deep_feeling # ""
                THEN Put(s3.context, "feeling_today", w.deep_feeling) ELSE s3.context
        ctx2 == Put(ctx1, "workload_stress", w.workload)
        s4 == [s3 EXCEPT !.deep_feeling = w.deep_feeling,
                         !.context = ctx2,
                         !.one_sentence = Strip(w.one_sentence)]
        again == s4.one_sentence # ""
        ml_t == _predict_emotion_cached(s4.one_sentence, env.emotion)
    IN  Ran(s4,
            [Log("results", "normal",
                calls \cup {"interpret_phq2", "interpret_gad2",
                            "build_coping_plan_text", "get_coping_plan_enhanced"}
                      \cup (IF again THEN {"_predict_emotion_cached"} ELSE {})
                      \cup (IF again /\ ml_t = <<>> THEN {"detect_emotion"} ELSE {}),
                outputs \cup {"action_list", "next_steps", "download_summary",
                              "go_deeper", "talk_draft", "coping_plan", "start_over"}
                        \cup (IF s4.feedback_rows # <<>> THEN {"download_feedback"} ELSE {})
                        \cup (IF s4.deep_suggestion # <<>> THEN {"updated_suggestion"} ELSE {})
                        \cup (IF s4.show_grounding THEN {"grounding_script"} ELSE {}),
                "none")
              EXCEPT !.display = [display EXCEPT !.updated = UpdatedBlock(s4.deep_suggestion)]])

\* lines 901-903: what recommend_action returned is kept in the session
StoreSuggested(s, rec) ==
    [s EXCEPT !.results_suggested_action = rec[1],
              !.results_ml_used = rec[2] >= MIN_CONFIDENCE,
              !.results_ml_confidence = rec[2]]

\* mutant: the suggested action is computed on every run
RenderPanel_recomputes(s, w, env, p, g, suggestion, d, rec) ==
    LET one_sentence == Strip(s.one_sentence)
        calls == {"score_phq2", "score_gad2", "get_suggestion"}
                 \cup (IF one_sentence # "" THEN {"_predict_emotion_cached"} ELSE {})
        outputs == {"calm_meter", "understanding", "reassurance", "support"}
                   \cup (IF "partial_note" \in DOMAIN suggestion
                         THEN {"partial_note"} ELSE {})
                   \cup (IF d.ml_used THEN {"tailored_caption"}
                         ELSE IF one_sentence # "" THEN {"tailoring_unavailable"}
                         ELSE {"general_caption"})
        compute == TRUE
    IN  IF compute /\ rec.exc # "none"
        THEN Ran(s, [Log("results", "normal", calls \cup {"recommend_action"},
                         outputs, rec.exc)
                       EXCEPT !.display = Display(d, suggestion, FALSE)])
        ELSE NormalTail(
                IF compute THEN StoreSuggested(s, rec.val) ELSE s,
                w, env, p, g, suggestion,
                IF compute THEN calls \cup {"recommend_action"} ELSE calls,
                outputs \cup {"suggested_action"},
                Display(d, suggestion, TRUE))

\* lines 841-903: the captions and the panel, then the suggested action, which
\* is computed once per visit; d is the tailoring and rec what recommend_action
\* gives for this session
RenderPanel(s, w, env, p, g, suggestion, d, rec) ==
    LET one_sentence == Strip(s.one_sentence)
        calls == {"score_phq2", "score_gad2", "get_suggestion"}
                 \cup (IF one_sentence # "" THEN {"_predict_emotion_cached"} ELSE {})
        outputs == {"calm_meter", "understanding", "reassurance", "support"}
                   \cup (IF "partial_note" \in DOMAIN suggestion
                         THEN {"partial_note"} ELSE {})
                   \cup (IF d.ml_used THEN {"tailored_caption"}
                         ELSE IF one_sentence # "" THEN {"tailoring_unavailable"}
                         ELSE {"general_caption"})
        compute == s.results_suggested_action = NoneStr
    IN  IF compute /\ rec.exc # "none"
        THEN Ran(s, [Log("results", "normal", calls \cup {"recommend_action"},
                         outputs, rec.exc)
                       EXCEPT !.display = Display(d, suggestion, FALSE)])
        ELSE NormalTail(
                IF compute THEN StoreSuggested(s, rec.val) ELSE s,
                w, env, p, g, suggestion,
                IF compute THEN calls \cup {"recommend_action"} ELSE calls,
                outputs \cup {"suggested_action"},
                Display(d, suggestion, TRUE))

\* lines 827-840 and 889-900: the tailoring of the suggestion and the call of
\* recommend_action, on the stored context and with no emotion label
RenderSuggested(s, w, env, p, g, suggestion) ==
    RenderPanel(s, w, env, p, g, suggestion,
                results_tailoring(suggestion, s.one_sentence, env.emotion),
                recommend_action(p[1], g[1],
                                 Get(s.context, "feeling_today"),
                                 Get(s.context, "workload_stress"),
                                 NoneStr, NoneStr, env.pipe, env.pred))

\* mutant: a suggestion stored by "Update suggestions" is shown again instead
\* of a new one
RenderScored_stored_bundle(s, w, env, phq2_result, gad2_result) ==
    IF phq2_result.exc # "none"
    THEN Ran(s, Log("results", "normal", {"score_phq2"}, {}, phq2_result.exc))
    ELSE IF gad2_result.exc # "none"
    THEN Ran(s, Log("results", "normal", {"score_phq2", "score_gad2"}, {},
                    gad2_result.exc))
    ELSE RenderSuggested(s, w, env, phq2_result.val, gad2_result.val,
                         IF s.deep_suggestion # <<>> THEN s.deep_suggestion[1]
                         ELSE get_suggestion(phq2_result.val[1], gad2_result.val[1],
                                             Some(s.context)))

\* lines 819-826: a scorer that raises ends the run; otherwise the suggestion
\* is made from the two scores and the stored context
RenderScored(s, w, env, phq2_result, gad2_result) ==
    IF phq2_result.exc # "none"
    THEN Ran(s, Log("results", "normal", {"score_phq2"}, {}, phq2_result.exc))
    ELSE IF gad2_result.exc # "none"
    THEN Ran(s, Log("results", "normal", {"score_phq2", "score_gad2"}, {},
                    gad2_result.exc))
    ELSE RenderSuggested(s, w, env, phq2_result.val, gad2_result.val,
                         get_suggestion(phq2_result.val[1], gad2_result.val[1],
                                        Some(s.context)))

\* lines 819-903: scoring, the suggestion, the tailoring, the suggested action
RenderNormal(s, w, env) ==
    RenderScored(s, w, env, score_phq2(Prefix2(s.phq2)), score_gad2(Prefix2(s.gad2)))

\* mutant: "Prefer not to say" and an unset answer trip the gate as well
results_is_crisis_not_no(s) == s.self_harm # "No"

\* mutant: a PHQ-2 item 2 of "nearly every day" trips the gate as well
results_is_crisis_or_score(s) == s.self_harm = "Yes" \/ is_crisis(s.phq2)

\* line 805: if self_harm == "Yes"
results_is_crisis(s) == s.self_harm = "Yes"

\* mutant: the crisis panel is drawn and the run goes on into the normal path
RenderResults_no_else(s, w, env) ==
    LET n == RenderNormal(s, w, env)
    IN  IF results_is_crisis(s)
        THEN Ran(n.ss, [n.log EXCEPT !.branch = "crisis",
                                     !.calls = @ \cup RenderCrisis(s).log.calls,
                                     !.outputs = @ \cup CrisisOutputs])
        ELSE n

\* lines 801-1106
RenderResults(s, w, env) ==
    IF results_is_crisis(s) THEN RenderCrisis(s) ELSE RenderNormal(s, w, env)

\* One run of the script on the page of s.step, nothing clicked.
RenderPage(s, env) ==
    CASE s.step = "intro" -> Ran(s, PlainLog("intro"))
      [] s.step \in GAMES -> Ran(s, PlainLog(s.step))
      \* line 562: RESET_STYLE_CHOICES is defined nowhere
      [] s.step = "support_now" ->
            Ran(s, Log("support_now", "none", {}, {}, "NameError"))
      [] s.step = "inner_weather" -> Ran(s, PlainLog("inner_weather"))
      [] s.step = "mood_0" ->
            Ran([s EXCEPT !.phq2 = SetFirst(@, RadioDefault(@, 1))], PlainLog("mood_0"))
      [] s.step = "mood_1" ->
            Ran([s EXCEPT !.phq2 = SetSecond(@, RadioDefault(@, 2))], PlainLog("mood_1"))
      [] s.step = "worry_0" ->
            Ran([s EXCEPT !.gad2 = SetFirst(@, RadioDefault(@, 1))], PlainLog("worry_0"))
      [] s.step = "worry_1" ->
            Ran([s EXCEPT !.gad2 = SetSecond(@, RadioDefault(@, 2))], PlainLog("worry_1"))
      \* the radio is built with index=0 each time the page is entered
      [] s.step = "safety" ->
            Ran([s EXCEPT !.self_harm = SELF_HARM_CHOICES[1]], PlainLog("safety"))
      [] s.step = "patience_game" ->
            Ran([s EXCEPT !.patience_game_done = @ \/ s.game_clicks >= PATIENCE_TAPS],
                PlainLog("patience_game"))
      [] s.step = "results" -> RenderResults(s, Widgets(s), env)

\* _go_to_step(step_name) and the run it triggers
Go(s, step_name, env) == RenderPage(_go_to_step(s, step_name), env)

\* ---------------------------------------------------------------- app.py: the flow
\* What a script run meets outside the session: the coping model as loaded,
\* what the emotion classifier says of the sentence, what the coping model
\* predicts.
Predictions ==
    {[raises |-> TRUE, idx |-> 0, conf |-> 0],
     [raises |-> FALSE, idx |-> 1, conf |-> 20],
     [raises |-> FALSE, idx |-> 5, conf |-> 80]}
\* what the emotion pipeline does in the runs of the flow
EmotionPicks == {Unavailable, Says("sadness", 90)}
\* The classifier is only asked about a sentence of MIN_WORDS_FOR_ML words or
\* more, the coping model only when it is loaded and no action is stored yet.
EnvsTyping(typed) ==
    [pipe : {coping_model},
     emotion : IF \E one \in {typed, session_state.one_sentence} :
                     WordCount(one) >= MIN_WORDS_FOR_ML
               THEN EmotionPicks ELSE {Unavailable},
     pred : IF coping_model = "present"
               /\ session_state.results_suggested_action = NoneStr
            THEN Predictions ELSE {[raises |-> TRUE, idx |-> 0, conf |-> 0]}]
Envs == EnvsTyping("")
\* for a run that draws no results page
Quiet == [pipe |-> coping_model, emotion |-> Unavailable,
          pred |-> [raises |-> TRUE, idx |-> 0, conf |-> 0]]

\* the action leaves the session and the log as the run r left them
Do(r) ==
    /\ session_state' = r.ss
    /\ render' = r.log
    /\ UNCHANGED <<coping_model, arg, call>>

\* the page of `step` is on screen, drawn to its end
OnPage(step) == session_state.step = step /\ render.error = "none"
NormalPage == OnPage("results") /\ render.branch = "normal"

\* the interactions a visit of the results page is followed for: those of
\* MaxResultsReruns in the whole flow, those of MaxVisitReruns when the
\* behaviour starts on the results page (arg is then the mark of the visit)
RerunLimit == IF arg = <<>> THEN MaxResultsReruns ELSE MaxVisitReruns

\* an interaction that stays on the results page
DoRerun(r) ==
    /\ render.reruns < RerunLimit
    /\ session_state' = r.ss
    /\ render' = [r.log EXCEPT !.reruns = render.reruns + 1]
    /\ UNCHANGED <<coping_model, arg, call>>

Init ==
    /\ session_state = InitState
    /\ render = PlainLog("intro")
    /\ coping_model \in {"absent", "present"}
    /\ arg = <<>>
    /\ call = NoCall

\* ---- intro
StartCheckIn ==
    /\ OnPage("intro")
    /\ Do(Go(session_state, "inner_weather", Quiet))

SupportNow ==
    /\ OnPage("intro")
    /\ Do(Go(session_state, "support_now", Quiet))

ToggleSaveSession ==
    /\ OnPage("intro")
    /\ Do(RenderPage([session_state EXCEPT !.save_session = ~@], Quiet))

\* After the click the checkbox is built with value=False under the same key:
\* depending on how the Streamlit version in use identifies the widget it
\* starts anew (unticked) or keeps the tick it had.
ClearSessionData ==
    /\ OnPage("intro")
    /\ session_state.saved_summary # <<>> \/ session_state.save_session
    /\ \E keeps_tick \in BOOLEAN :
          Do(RenderPage([session_state EXCEPT
                            !.saved_summary = <<>>,
                            !.save_session = @ /\ keeps_tick], Quiet))

OpenGame ==
    /\ OnPage("intro")
    /\ \E game \in GAMES : Do(Go(session_state, game, Quiet))

GameBackToHome ==
    /\ session_state.step \in GAMES
    /\ Do(Go(session_state, "intro", Quiet))

\* ---- inner_weather
PickWeather ==
    /\ OnPage("inner_weather")
    /\ \E label \in WeatherPicks :
          Do(Go([session_state EXCEPT
                    !.inner_weather = label,
                    !.context = Put(@, "feeling_today", WEATHER_TO_CONTEXT[label])],
                "mood_0", Quiet))

WeatherNext ==
    /\ OnPage("inner_weather")
    /\ Do(Go(IF session_state.inner_weather = NoneStr
             THEN [session_state EXCEPT
                      !.inner_weather = "Clear",
                      !.context = Put(@, "feeling_today", WEATHER_TO_CONTEXT["Clear"])]
             ELSE session_state,
             "mood_0", Quiet))

WeatherBack ==
    /\ OnPage("inner_weather")
    /\ Do(Go(session_state, "intro", Quiet))

\* ---- mood_0, mood_1, worry_0, worry_1
SelectMood0 ==
    /\ OnPage("mood_0")
    /\ \E sel \in Mood0Picks :
          Do(Ran([session_state EXCEPT !.phq2 = SetFirst(@, sel)], PlainLog("mood_0")))
Mood0Back == OnPage("mood_0") /\ Do(Go(session_state, "inner_weather", Quiet))
Mood0Next == OnPage("mood_0") /\ Do(Go(session_state, "mood_1", Quiet))

SelectMood1 ==
    /\ OnPage("mood_1")
    /\ \E sel \in Mood1Picks :
          Do(Ran([session_state EXCEPT !.phq2 = SetSecond(@, sel)], PlainLog("mood_1")))
Mood1Back == OnPage("mood_1") /\ Do(Go(session_state, "mood_0", Quiet))
Mood1Next == OnPage("mood_1") /\ Do(Go(session_state, "worry_0", Quiet))

SelectWorry0 ==
    /\ OnPage("worry_0")
    /\ \E sel \in Worry0Picks :
          Do(Ran([session_state EXCEPT !.gad2 = SetFirst(@, sel)], PlainLog("worry_0")))
Worry0Back == OnPage("worry_0") /\ Do(Go(session_state, "mood_1", Quiet))
Worry0Next == OnPage("worry_0") /\ Do(Go(session_state, "worry_1", Quiet))

SelectWorry1 ==
    /\ OnPage("worry_1")
    /\ \E sel \in Worry1Picks :
          Do(Ran([session_state EXCEPT !.gad2 = SetSecond(@, sel)], PlainLog("worry_1")))
Worry1Back == OnPage("worry_1") /\ Do(Go(session_state, "worry_0", Quiet))
Worry1Next == OnPage("worry_1") /\ Do(Go(session_state, "safety", Quiet))

\* ---- safety
SelectSelfHarm ==
    /\ OnPage("safety")
    /\ \E i \in 1..Len(SELF_HARM_CHOICES) :
          Do(Ran([session_state EXCEPT !.self_harm = SELF_HARM_CHOICES[i]],
                 PlainLog("safety")))

SafetyBack == OnPage("safety") /\ Do(Go(session_state, "worry_1", Quiet))

\* mutant: the button leads to the results whatever the answer
SeeMyResults_skip_game ==
    /\ OnPage("safety")
    /\ \E env \in Envs : Do(Go(session_state, "results", env))

SeeMyResults ==
    /\ OnPage("safety")
    /\ \E env \in Envs :
          Do(IF session_state.self_harm = "Yes"
             THEN Go(session_state, "results", env)
             ELSE Go(session_state, "patience_game", env))

\* ---- patience_game
Tap ==
    /\ OnPage("patience_game")
    /\ session_state.game_clicks < PATIENCE_TAPS
    /\ Do(RenderPage([session_state EXCEPT !.game_clicks = @ + 1], Quiet))

ContinueToResults ==
    /\ OnPage("patience_game")
    /\ session_state.game_clicks >= PATIENCE_TAPS
    /\ \E env \in Envs : Do(Go(session_state, "results", env))

SkipToResults ==
    /\ OnPage("patience_game")
    /\ \E env \in Envs : Do(Go(session_state, "results", env))

\* ---- results, crisis branch
CrisisBack ==
    /\ OnPage("results") /\ render.branch = "crisis"
    /\ Do(Go(session_state, "intro", Quiet))

\* mutant: the row is appended whether or not the box is ticked
StartNow_without_opt_in ==
    /\ NormalPage
    /\ ~session_state.feedback_opt_in
          \/ Len(session_state.feedback_rows) < MaxFeedbackRows
    /\ \E act \in StartNowPicks, env \in Envs :
          LET s1 == [session_state EXCEPT !.results_action_taken = act]
              row == build_feedback_row(
                        score_phq2(Prefix2(s1.phq2)).val[1],
                        score_gad2(Prefix2(s1.gad2)).val[1],
                        Get(s1.context, "feeling_today"),
                        Get(s1.context, "workload_stress"),
                        NoneStr, NoneStr,
                        OrEmpty(s1.results_suggested_action),
                        s1.results_action_taken,
                        "yes",
                        s1.results_ml_used,
                        s1.results_ml_confidence)
              s2 == [s1 EXCEPT
                        !.result_help = "yes",
                        !.feedback_rows = Append(@, row),
                        !.results_action_taken = NoneStr]
          IN  DoRerun(RenderPage(s2, env))

\* ---- results, normal branch
\* "Start now": the click run stores the action and re-runs; the next run draws
\* the action and the "Did this help?" radio, which stands on "Yes", records
\* it (and the row, when opted in), clears the action and re-runs.
StartNow ==
    /\ NormalPage
    /\ ~session_state.feedback_opt_in
          \/ Len(session_state.feedback_rows) < MaxFeedbackRows
    /\ \E act \in StartNowPicks, env \in Envs :
          LET s1 == [session_state EXCEPT !.results_action_taken = act]
              row == build_feedback_row(
                        score_phq2(Prefix2(s1.phq2)).val[1],
                        score_gad2(Prefix2(s1.gad2)).val[1],
                        Get(s1.context, "feeling_today"),
                        Get(s1.context, "workload_stress"),
                        NoneStr, NoneStr,
                        OrEmpty(s1.results_suggested_action),
                        s1.results_action_taken,
                        "yes",
                        s1.results_ml_used,
                        s1.results_ml_confidence)
              s2 == [s1 EXCEPT
                        !.result_help = "yes",
                        !.feedback_rows = IF s1.feedback_opt_in THEN Append(@, row) ELSE @,
                        !.results_action_taken = NoneStr]
          IN  DoRerun(RenderPage(s2, env))

ToggleFeedbackOptIn ==
    /\ NormalPage
    /\ \E env \in Envs :
          DoRerun(RenderResults(session_state,
                           [Widgets(session_state) EXCEPT !.feedback_opt_in = ~@], env))

SelectDeepFeeling ==
    /\ NormalPage
    /\ \E feel \in DeepFeelingPicks, env \in Envs :
          DoRerun(RenderResults(session_state,
                           [Widgets(session_state) EXCEPT !.deep_feeling = feel], env))

SelectWorkload ==
    /\ NormalPage
    /\ \E choice \in WorkloadPicks, env \in Envs :
          DoRerun(RenderResults(session_state,
                           [Widgets(session_state) EXCEPT !.workload = choice], env))

TypeOneSentence ==
    /\ NormalPage
    /\ \E one \in SentencePicks : \E env \in EnvsTyping(one) :
          DoRerun(RenderResults(session_state,
                           [Widgets(session_state) EXCEPT !.one_sentence = one], env))

UpdateSuggestions ==
    /\ NormalPage
    /\ \E env \in Envs :
          LET s1 == RenderResults(session_state, Widgets(session_state), env).ss
              suggestion2 == get_suggestion(score_phq2(Prefix2(s1.phq2)).val[1],
                                            score_gad2(Prefix2(s1.gad2)).val[1],
                                            Some(s1.context))
          IN  DoRerun(RenderPage([s1 EXCEPT !.deep_suggestion = <<suggestion2>>], env))

ShowGrounding ==
    /\ NormalPage
    /\ \E env \in Envs :
          LET r == RenderResults(session_state, Widgets(session_state), env)
          IN  DoRerun(Ran([r.ss EXCEPT !.show_grounding = TRUE],
                     [r.log EXCEPT !.outputs = @ \cup {"grounding_script"}]))

\* mutant: the collected feedback rows are kept as well
StartOver_keeps_rows ==
    /\ NormalPage
    /\ \E env \in Envs :
          LET s1 == RenderResults(session_state, Widgets(session_state), env).ss
          IN  Do(Go([InitState EXCEPT !.save_session = s1.save_session,
                                      !.saved_summary = s1.saved_summary,
                                      !.feedback_rows = s1.feedback_rows],
                    "intro", Quiet))

\* every key but save_session and saved_summary is deleted, then init_state
StartOver ==
    /\ NormalPage
    /\ \E env \in Envs :
          LET s1 == RenderResults(session_state, Widgets(session_state), env).ss
          IN  Do(Go([InitState EXCEPT !.save_session = s1.save_session,
                                      !.saved_summary = s1.saved_summary],
                    "intro", Quiet))

Next ==
    \/ StartCheckIn
    \/ SupportNow
    \/ ToggleSaveSession
    \/ ClearSessionData
    \/ OpenGame
    \/ GameBackToHome
    \/ PickWeather
    \/ WeatherNext
    \/ WeatherBack
    \/ SelectMood0
    \/ Mood0Back
    \/ Mood0Next
    \/ SelectMood1
    \/ Mood1Back
    \/ Mood1Next
    \/ SelectWorry0
    \/ Worry0Back
    \/ Worry0Next
    \/ SelectWorry1
    \/ Worry1Back
    \/ Worry1Next
    \/ SelectSelfHarm
    \/ SafetyBack
    \/ SeeMyResults
    \/ Tap
    \/ ContinueToResults
    \/ SkipToResults
    \/ CrisisBack
    \/ StartNow
    \/ ToggleFeedbackOptIn
    \/ SelectDeepFeeling
    \/ SelectWorkload
    \/ TypeOneSentence
    \/ UpdateSuggestions
    \/ ShowGrounding
    \/ StartOver

Spec == Init /\ [][Next]_vars

\* The pure-function specifications leave the app where it starts.
AppIdle ==
    /\ session_state = InitState
    /\ render = PlainLog("intro")
    /\ coping_model = "absent"

\* ---------------------------------------------------------------- scorers, applied
InitScore == arg \in AnswerLists /\ call = NoCall /\ AppIdle

Call_score_phq2 ==
    /\ call' = [fn |-> "score_phq2", ret |-> score_phq2(arg)]
    /\ UNCHANGED <<arg, session_state, render, coping_model>>

Call_score_gad2 ==
    /\ call' = [fn |-> "score_gad2", ret |-> score_gad2(arg)]
    /\ UNCHANGED <<arg, session_state, render, coping_model>>

Call_score_phq9 ==
    /\ call' = [fn |-> "score_phq9", ret |-> Return(score_phq9(arg))]
    /\ UNCHANGED <<arg, session_state, render, coping_model>>

Call_score_gad7 ==
    /\ call' = [fn |-> "score_gad7", ret |-> Return(score_gad7(arg))]
    /\ UNCHANGED <<arg, session_state, render, coping_model>>

Call_score_pss4 ==
    /\ call' = [fn |-> "score_pss4", ret |-> Return(score_pss4(arg))]
    /\ UNCHANGED <<arg, session_state, render, coping_model>>

Call_phq9_has_suicidal_ideation ==
    /\ call' = [fn |-> "phq9_has_suicidal_ideation",
                ret |-> Return(phq9_has_suicidal_ideation(arg))]
    /\ UNCHANGED <<arg, session_state, render, coping_model>>

NextScore ==
    \/ Call_score_phq2
    \/ Call_score_gad2
    \/ Call_score_phq9
    \/ Call_score_gad7
    \/ Call_score_pss4
    \/ Call_phq9_has_suicidal_ideation

SpecScore == InitScore /\ [][NextScore]_vars

\* ---------------------------------------------------------------- severity bands, applied
InitBand == arg \in 0..MaxScore /\ call = NoCall /\ AppIdle

Call_phq9_severity ==
    /\ call' = [fn |-> "phq9_severity", ret |-> Return(phq9_severity(arg))]
    /\ UNCHANGED <<arg, session_state, render, coping_model>>

Call_gad7_severity ==
    /\ call' = [fn |-> "gad7_severity", ret |-> Return(gad7_severity(arg))]
    /\ UNCHANGED <<arg, session_state, render, coping_model>>

Call_pss4_level ==
    /\ call' = [fn |-> "pss4_level", ret |-> Return(pss4_level(arg))]
    /\ UNCHANGED <<arg, session_state, render, coping_model>>

NextBand ==
    \/ Call_phq9_severity
    \/ Call_gad7_severity
    \/ Call_pss4_level

SpecBand == InitBand /\ [][NextBand]_vars

\* ---------------------------------------------------------------- get_suggestion, applied
ScoreValues == {None} \cup 0..MaxShortScore
ContextDicts ==
    UNION {{d \in [D -> FeelingValues \cup WorkloadValues] :
               /\ "feeling_today" \in D => d["feeling_today"] \in FeelingValues
               /\ "workload_stress" \in D => d["workload_stress"] \in WorkloadValues} :
           D \in SUBSET CONTEXT_KEYS}
ContextArgs == {NoneCtx} \cup {Some(d) : d \in ContextDicts}

InitSuggest ==
    /\ arg \in [phq2_score : ScoreValues, gad2_score : ScoreValues, context : ContextArgs]
    /\ call = NoCall
    /\ AppIdle

Call_get_suggestion ==
    /\ call' = [fn |-> "get_suggestion",
                ret |-> Return(get_suggestion(arg.phq2_score, arg.gad2_score, arg.context))]
    /\ UNCHANGED <<arg, session_state, render, coping_model>>

NextSuggest == Call_get_suggestion

SpecSuggest == InitSuggest /\ [][NextSuggest]_vars

\* ---------------------------------------------------------------- the coping action
\* What pipe.predict / predict_proba can do on a row: raise, or give a class
\* index (6 is past the six action ids) with its probability in percent.
MaxClassIndex == 6
RecommendPredictions ==
    {[raises |-> TRUE, idx |-> 0, conf |-> 0]}
    \cup [raises : {FALSE}, idx : {0, 5, MaxClassIndex},
          conf : {MIN_CONFIDENCE - 1, MIN_CONFIDENCE, 100}]
RuleFeelings == FeelingValues \cup {NoneStr, "Anxiety"}
RuleWorkloads == WorkloadValues \cup {NoneStr, "Burnout", "Work stress"}
RuleEmotions == {NoneStr, "anxious", "sadness"}

InitRecommend ==
    /\ arg \in [phq2_score : ScoreValues, gad2_score : ScoreValues,
                feeling_today : RuleFeelings, workload_stress : RuleWorkloads,
                text_emotion_label : RuleEmotions,
                pipe : {"absent", "present"}, pred : RecommendPredictions]
    /\ arg.pipe = "absent" => arg.pred.raises
    /\ call = NoCall
    /\ AppIdle

Call_suggest_action_rules ==
    /\ call' = [fn |-> "suggest_action_rules",
                ret |-> suggest_action_rules(arg.phq2_score, arg.gad2_score,
                            arg.feeling_today, arg.workload_stress,
                            arg.text_emotion_label)]
    /\ UNCHANGED <<arg, session_state, render, coping_model>>

Call_recommend_action ==
    /\ call' = [fn |-> "recommend_action",
                ret |-> recommend_action(arg.phq2_score, arg.gad2_score,
                            arg.feeling_today, arg.workload_stress, NoneStr,
                            arg.text_emotion_label, arg.pipe, arg.pred)]
    /\ UNCHANGED <<arg, session_state, render, coping_model>>

NextRecommend == Call_suggest_action_rules \/ Call_recommend_action

SpecRecommend == InitRecommend /\ [][NextRecommend]_vars

\* ---------------------------------------------------------------- the emotion classifier
\* the labels a row of the pipeline may carry: the six of the model, one in
\* capitals with a trailing blank, one the mapping does not know, none at all
RawLabels ==
    {"sadness", "joy", "love", "anger", "fear", "surprise", "JOY ", "neutral", NoneStr}
MaxScorePercent == 90
RawScores == {0, INFERENCE_MIN_CONFIDENCE - 1, INFERENCE_MIN_CONFIDENCE, MaxScorePercent}
EmotionOutcomes ==
    {Unavailable, EmotionRun("raises", "raises", "", 0),
     EmotionRun("pipe", "raises", "", 0), EmotionRun("pipe", "empty", "", 0)}
    \cup {Says(l, sc) : l \in RawLabels, sc \in RawScores}
Texts == {NoneStr, "", "  ", "so tired", "I feel sad today"}
StateLabels ==
    {"sadness", "joy", "love", "anger", "fear", "surprise", "unknown_label", ""}

InitEmotion ==
    /\ arg \in [text : Texts, pipe : EmotionOutcomes, label : StateLabels]
    /\ call = NoCall
    /\ AppIdle

Call_predict_emotion ==
    /\ call' = [fn |-> "predict_emotion",
                ret |-> Return(predict_emotion(arg.text, arg.pipe))]
    /\ UNCHANGED <<arg, session_state, render, coping_model>>

Call_state_from_emotion_label ==
    /\ call' = [fn |-> "state_from_emotion_label",
                ret |-> Return(state_from_emotion_label(arg.label))]
    /\ UNCHANGED <<arg, session_state, render, coping_model>>

NextEmotion == Call_predict_emotion \/ Call_state_from_emotion_label

SpecEmotion == InitEmotion /\ [][NextEmotion]_vars

\* ---------------------------------------------------------------- one results run
\* Sessions as the flow hands them to the results step: two answers per
\* instrument, the context of the weather tile and of the workload box, the
\* sentence as the page stored it (stripped), self_harm as the safety page
\* left it.
RenderAnswers == {<<0, 0>>, <<3, 3>>, <<PREFER_NOT_ANSWER, PREFER_NOT_ANSWER>>}
RenderContexts ==
    {EmptyDict, [feeling_today |-> "Overwhelmed"],
     [feeling_today |-> "Overwhelmed", workload_stress |-> "Overwhelming"]}
StoredSentences == {"", "so tired", "I feel sad today"}

ResultsSession(a) ==
    [InitState EXCEPT !.step = "results", !.phq2 = a.phq2, !.gad2 = a.gad2,
                      !.context = a.context, !.one_sentence = a.one_sentence,
                      !.self_harm = a.self_harm]
ResultsEnv(a) ==
    [pipe |-> a.pipe, emotion |-> a.emotion,
     pred |-> [raises |-> FALSE, idx |-> 5, conf |-> 80]]

InitRender ==
    /\ arg \in [phq2 : RenderAnswers, gad2 : RenderAnswers, context : RenderContexts,
                one_sentence : StoredSentences, self_harm : {"No", "Prefer not to say"},
                emotion : EmotionOutcomes, pipe : {"absent", "present"}]
    /\ call = NoCall
    /\ AppIdle

Call_RenderResults ==
    /\ call' = [fn |-> "results",
                ret |-> Return(RenderResults(ResultsSession(arg),
                                             Widgets(ResultsSession(arg)),
                                             ResultsEnv(arg)).log)]
    /\ UNCHANGED <<arg, session_state, render, coping_model>>

NextRender == Call_RenderResults

SpecRender == InitRender /\ [][NextRender]_vars

\* ================================================================ claims
\* Every environment a results run can meet.
AllEnvs ==
    [pipe : {coping_model}, emotion : EmotionPicks, pred : Predictions]

CrisisShown == session_state.step = "results" /\ session_state.self_harm = "Yes"

\* what the crisis branch must not do
ForbiddenInCrisis ==
    {"score_phq2", "score_gad2", "get_suggestion", "_predict_emotion_cached",
     "detect_emotion", "recommend_action", "interpret_phq2", "interpret_gad2",
     "build_coping_plan_text", "get_coping_plan_enhanced", "build_feedback_row"}

C1_CrisisRenderClean ==
    CrisisShown =>
        /\ render.branch = "crisis" /\ render.error = "none"
        /\ render.calls \cap ForbiddenInCrisis = {}
        /\ render.outputs = CrisisOutputs
        /\ \A env \in AllEnvs :
              LET s == [session_state EXCEPT !.save_session = TRUE,
                                             !.feedback_opt_in = TRUE]
                  r == RenderPage(s, env)
              IN  r.ss = s /\ r.log = RenderCrisis(s).log

C2_GateIffYes ==
    /\ session_state.step = "results" =>
          /\ session_state.self_harm = "Yes" => render.branch = "crisis"
          /\ session_state.self_harm \in {"No", "Prefer not to say", NoneStr} =>
                /\ render.branch = "normal"
                /\ {"score_phq2", "score_gad2", "get_suggestion"} \subseteq render.calls
    /\ \A v \in {"No", "Yes", "Prefer not to say", NoneStr} :
          LET s == [session_state EXCEPT !.self_harm = v]
          IN  Go(s, "results", Quiet).log.branch = IF v = "Yes" THEN "crisis" ELSE "normal"

C2_Witness ==
    /\ session_state.step = "results"
    /\ session_state.self_harm = "Prefer not to say"
    /\ render.branch = "normal"
    /\ "get_suggestion" \in render.calls

\* every pair of answers the two radios of an instrument can give
AnswerPairs == [1..2 -> 0..PREFER_NOT_ANSWER]

\* C3: the branch of the results step never depends on the questionnaire
\* answers: for every PHQ-2 and GAD-2 answer pair (PHQ-2 item 2 = 3 included)
\* it is the normal branch when self_harm differs from "Yes" and the crisis
\* branch when it is "Yes", and no results run calls is_crisis_by_score,
\* is_crisis_phq9 or is_crisis.
C3_CrisisNeverFromScores ==
    /\ session_state.step = "results" =>
          /\ render.branch = IF session_state.self_harm = "Yes" THEN "crisis" ELSE "normal"
          /\ render.calls \cap {"is_crisis_by_score", "is_crisis_phq9", "is_crisis"} = {}
    /\ session_state.step = "safety" =>
          \A a \in AnswerPairs, b \in AnswerPairs :
              LET s == [session_state EXCEPT !.phq2 = a, !.gad2 = b]
              IN  Go(s, "results", Quiet).log.branch =
                      IF s.self_harm = "Yes" THEN "crisis" ELSE "normal"

C3_Witness ==
    /\ session_state.step = "results"
    /\ session_state.self_harm = "No"
    /\ Len(session_state.phq2) = 2 /\ session_state.phq2[2] = NEARLY_EVERY_DAY
    /\ is_crisis_by_score(session_state.phq2)
    /\ render.branch = "normal" /\ render.error = "none"

Sentinels(a) == {i \in 1..Len(a) : a[i] = PREFER_NOT_ANSWER}
Capped(a) == [i \in 1..Len(a) |-> Min(a[i], 3)]
ValidAnswers(a) == \A i \in 1..Len(a) : a[i] \in 0..4

\* C4: for a length-2 list over 0..4 with k sentinels, score_phq2 and score_gad2
\* return (None, 0, 2) when k = 2, (the single answered value, 1, 2) when k = 1
\* and (the sum of both, 2, 2) when k = 0; the score is absent only when nothing
\* was answered and total_items is always 2.
C4_ShortFormPartialScoring ==
    (call.fn \in {"score_phq2", "score_gad2"} /\ Len(arg) = 2 /\ ValidAnswers(arg)) =>
        /\ call.ret.exc = "none"
        /\ LET k == Cardinality(Sentinels(arg))
               r == call.ret.val
           IN  /\ k = 2 => r = <<None, 0, 2>>
               /\ k = 1 => \E i \in 1..2 : arg[i] # 4 /\ r = <<arg[i], 1, 2>>
               /\ k = 0 => r = <<arg[1] + arg[2], 2, 2>>
               /\ (r[1] = None) <=> (r[2] = 0)
               /\ r[3] = 2

C4_Witness ==
    /\ call.fn = "score_phq2" /\ arg = <<3, 4>>
    /\ call.ret = Return(<<3, 1, 2>>)

\* C5 (as claimed): every scorer given a list of the wrong length fails with an
\* error instead of returning a score or an absent score.
RequiredLen(fn) ==
    CASE fn = "score_phq2" -> 2
      [] fn = "score_gad2" -> 2
      [] fn = "score_phq9" -> 9
      [] fn = "score_gad7" -> 7
      [] fn = "score_pss4" -> 4

Scorers == {"score_phq2", "score_gad2", "score_phq9", "score_gad7", "score_pss4"}

C5_WrongLengthFails ==
    (call.fn \in Scorers /\ Len(arg) # RequiredLen(call.fn)) => call.ret.exc # "none"

\* C6: a correctly sized PHQ-9, GAD-7 or PSS-4 list with at least one sentinel
\* scores None whatever the other values are; without a sentinel score_phq9 and
\* score_gad7 return the sum of min(value, 3).
C6_LongFormStrictScoring ==
    (call.fn \in {"score_phq9", "score_gad7", "score_pss4"}
        /\ Len(arg) = RequiredLen(call.fn)) =>
        /\ call.ret.exc = "none"
        /\ Sentinels(arg) # {} => call.ret.val = None
        /\ (Sentinels(arg) = {} /\ call.fn # "score_pss4") =>
               call.ret.val = SumSeq(Capped(arg))
        /\ Sentinels(arg) = {} => call.ret.val # None

C6_Witness ==
    /\ call.fn = "score_phq9" /\ Len(arg) = 9
    /\ arg[1] = 3 /\ arg[2] = 3 /\ arg[9] = 4
    /\ call.ret.val = None

PHQ9_BANDS == <<"minimal", "mild", "moderate", "moderately_severe", "severe">>
GAD7_BANDS == <<"minimal", "mild", "moderate", "severe">>
PSS4_LEVELS == <<"low", "moderate", "high">>
Rank(bands, b) == CHOOSE i \in 1..Len(bands) : bands[i] = b

C8_SeverityBands ==
    /\ call.fn = "phq9_severity" =>
          /\ arg <= 4 => call.ret.val = "minimal"
          /\ arg \in 5..9 => call.ret.val = "mild"
          /\ arg \in 10..14 => call.ret.val = "moderate"
          /\ arg \in 15..19 => call.ret.val = "moderately_severe"
          /\ arg >= 20 => call.ret.val = "severe"
          /\ \A t \in 0..arg :
                Rank(PHQ9_BANDS, phq9_severity(t)) <= Rank(PHQ9_BANDS, call.ret.val)
    /\ call.fn = "gad7_severity" =>
          /\ arg <= 4 => call.ret.val = "minimal"
          /\ arg \in 5..9 => call.ret.val = "mild"
          /\ arg \in 10..14 => call.ret.val = "moderate"
          /\ arg >= 15 => call.ret.val = "severe"
          /\ \A t \in 0..arg :
                Rank(GAD7_BANDS, gad7_severity(t)) <= Rank(GAD7_BANDS, call.ret.val)
    /\ call.fn = "pss4_level" =>
          /\ arg <= 4 => call.ret.val = "low"
          /\ arg \in 5..8 => call.ret.val = "moderate"
          /\ arg >= 9 => call.ret.val = "high"
          /\ \A t \in 0..arg :
                Rank(PSS4_LEVELS, pss4_level(t)) <= Rank(PSS4_LEVELS, call.ret.val)

C8_Witness ==
    call.fn = "phq9_severity" /\ arg = 19 /\ call.ret.val = "moderately_severe"

\* C9: phq9_has_suicidal_ideation is true iff the list has at least 9 items and
\* the 9th equals 3: false for every other value there (the sentinel included)
\* and for every shorter list, whatever the first eight items are.
C9_SuicidalIdeation ==
    call.fn = "phq9_has_suicidal_ideation" =>
        /\ Len(arg) < 9 => call.ret.val = FALSE
        /\ (Len(arg) >= 9 /\ arg[9] = 3) => call.ret.val = TRUE
        /\ (Len(arg) >= 9 /\ arg[9] # 3) => call.ret.val = FALSE

C9_Witness ==
    /\ call.fn = "phq9_has_suicidal_ideation"
    /\ Len(arg) = 10 /\ arg[9] = 3 /\ arg[1] = 4 /\ arg[10] = 0
    /\ call.ret.val = TRUE

\* C10: with the scores not both absent, a workload of "A bit much" or
\* "Overwhelming" and (a feeling of Low energy, Overwhelmed or Stressed, or either
\* score >= 3), get_suggestion returns the burnout band's action and next_steps
\* whichever score is elevated; without that workload it never returns them.
ArgCtx == IF arg.context = NoneCtx THEN EmptyDict ELSE arg.context[1]
ArgElevated ==
    \/ arg.phq2_score # None /\ arg.phq2_score >= 3
    \/ arg.gad2_score # None /\ arg.gad2_score >= 3
ArgHighWorkload == Get(ArgCtx, "workload_stress") \in {"A bit much", "Overwhelming"}
ArgLowEnergy == Get(ArgCtx, "feeling_today") \in {"Low energy", "Overwhelmed", "Stressed"}
IsBand(ret, band) ==
    /\ ret.action = SUGGESTION_ENGINE[band].action
    /\ ret.next_steps = SUGGESTION_ENGINE[band].next_steps

C10_BurnoutPriority ==
    call.fn = "get_suggestion" =>
        /\ (/\ ~(arg.phq2_score = None /\ arg.gad2_score = None)
            /\ ArgHighWorkload
            /\ (ArgLowEnergy \/ ArgElevated)) => IsBand(call.ret.val, "burnout")
        /\ ~ArgHighWorkload => ~IsBand(call.ret.val, "burnout")

C10_Witness ==
    /\ call.fn = "get_suggestion"
    /\ arg.phq2_score = 1 /\ arg.gad2_score = 4
    /\ arg.context = Some([workload_stress |-> "A bit much"])
    /\ IsBand(call.ret.val, "burnout")

\* what get_suggestion was called with
ArgBothAbsent == arg.phq2_score = None /\ arg.gad2_score = None
ArgPhqElevated == arg.phq2_score # None /\ arg.phq2_score >= 3
ArgGadElevated == arg.gad2_score # None /\ arg.gad2_score >= 3
\* the workload and (feeling or elevated) test of the burnout override
ArgBurnoutCondition == ArgHighWorkload /\ (ArgLowEnergy \/ ArgElevated)
BANDS == DOMAIN SUGGESTION_ENGINE

\* C11 (as claimed): with both scores absent, whatever the context (one that
\* meets the burnout workload and feeling test included), get_suggestion
\* returns the "incomplete" understanding, the action and next_steps of the
\* minimal band, the fixed support line and no partial_note.
C11_BothAbsentMinimal ==
    (call.fn = "get_suggestion" /\ ArgBothAbsent) =>
        /\ call.ret.val.understanding = UNDERSTANDING_LINES["incomplete"]
        /\ IsBand(call.ret.val, "minimal")
        /\ call.ret.val.support = SUPPORT_LINE
        /\ "partial_note" \notin DOMAIN call.ret.val

\* C12: when the burnout test does not hold, gad2 >= 3 with phq2 absent or
\* under 3 gives the elevated_anxiety band, phq2 >= 3 gives elevated_mood (also
\* with gad2 >= 3 and with gad2 absent), neither score >= 3 gives minimal; and
\* every call returns the content of exactly one band.
C12_AnxietyMoodBands ==
    call.fn = "get_suggestion" =>
        /\ ~ArgBurnoutCondition =>
              /\ (ArgGadElevated /\ ~ArgPhqElevated) => IsBand(call.ret.val, "elevated_anxiety")
              /\ ArgPhqElevated => IsBand(call.ret.val, "elevated_mood")
              /\ (~ArgGadElevated /\ ~ArgPhqElevated) => IsBand(call.ret.val, "minimal")
        /\ Cardinality({b \in BANDS : IsBand(call.ret.val, b)}) = 1

\* both scores elevated, no workload tag: the mood band
C12_Witness ==
    /\ call.fn = "get_suggestion"
    /\ arg.phq2_score = 3 /\ arg.gad2_score = 5
    /\ ~ArgHighWorkload
    /\ IsBand(call.ret.val, "elevated_mood")

\* C13: the understanding line depends on the two scores only: the
\* "incomplete" text iff both are absent, the "elevated" text iff one is
\* present and >= 3, the "minimal" text otherwise, the same for every context
\* and whatever band the context selects.
C13_UnderstandingFromScores ==
    call.fn = "get_suggestion" =>
        LET u == call.ret.val.understanding
        IN  /\ (u = UNDERSTANDING_LINES["incomplete"]) <=> ArgBothAbsent
            /\ (u = UNDERSTANDING_LINES["elevated"]) <=> ArgElevated
            /\ (u = UNDERSTANDING_LINES["minimal"]) <=> (~ArgBothAbsent /\ ~ArgElevated)
            /\ \A c \in ContextArgs :
                  get_suggestion(arg.phq2_score, arg.gad2_score, c).understanding = u

\* the burnout band with the "minimal" understanding, one score absent
C13_Witness ==
    /\ call.fn = "get_suggestion"
    /\ arg.phq2_score = None /\ arg.gad2_score = 2
    /\ IsBand(call.ret.val, "burnout")
    /\ call.ret.val.understanding = UNDERSTANDING_LINES["minimal"]

C15_TotalAndPopulated ==
    call.fn = "get_suggestion" =>
        /\ call.ret.exc = "none"
        /\ {"understanding", "action", "reassurance", "next_steps", "support"}
              \subseteq DOMAIN call.ret.val
        /\ \A k \in {"understanding", "action", "reassurance", "support"} :
              call.ret.val[k] # ""
        /\ Len(call.ret.val.next_steps) = 2
        /\ \A i \in 1..2 : call.ret.val.next_steps[i] # ""
        /\ \E b \in BANDS : IsBand(call.ret.val, b)

\* a None context with both scores present
C15_Witness ==
    /\ call.fn = "get_suggestion"
    /\ arg.context = NoneCtx /\ arg.phq2_score = 0 /\ arg.gad2_score = 6
    /\ call.ret.exc = "none"
    /\ IsBand(call.ret.val, "elevated_anxiety")

\* the keywords of the tags suggest_action_rules was called with
ArgFeeling == KeywordsIn(arg.feeling_today)
ArgWorkload == KeywordsIn(arg.workload_stress)
ArgEmotion == KeywordsIn(arg.text_emotion_label)
ArgIntScores == arg.phq2_score # None /\ arg.gad2_score # None

\* the six rules of the claim, in its order
RuleMatches(n) ==
    CASE n = 1 -> arg.gad2_score >= 3 \/ "anxious" \in ArgEmotion \/ "anxiety" \in ArgFeeling
      [] n = 2 -> "overwhelm" \in ArgFeeling
      [] n = 3 -> "low" \in ArgFeeling \/ "sad" \in ArgFeeling \/ arg.phq2_score >= 3
      [] n = 4 -> "stressed" \in ArgFeeling \/ "stress" \in ArgWorkload
      [] n = 5 -> "burnout" \in ArgWorkload \/ "overwhelming" \in ArgWorkload
      [] n = 6 -> TRUE
RuleAction ==
    <<"breathing_60s", "reframe_prompt", "reach_out", "short_walk", "tiny_task",
      "breathing_60s">>
FirstRule == CHOOSE n \in 1..6 : RuleMatches(n) /\ \A k \in 1..(n - 1) : ~RuleMatches(k)

\* C16: for integer scores and every tag value, suggest_action_rules returns
\* the action of the first rule that matches in the order anxiety, overwhelm,
\* low mood, stress, burnout, default.
C16_RulePriority ==
    (call.fn = "suggest_action_rules" /\ ArgIntScores) =>
        call.ret = Return(RuleAction[FirstRule])

\* an elevated mood score and an "Overwhelmed" feeling: rule 2 wins over rule 3
C16_Witness ==
    /\ call.fn = "suggest_action_rules"
    /\ arg.phq2_score = 4 /\ arg.gad2_score = 0
    /\ arg.feeling_today = "Overwhelmed" /\ arg.workload_stress = "Overwhelming"
    /\ call.ret = Return("reframe_prompt")

\* the model is there, predicts without raising and is confident enough
ArgModelTrusted ==
    arg.pipe = "present" /\ ~arg.pred.raises /\ arg.pred.conf >= MIN_CONFIDENCE

\* C17: for integer scores, recommend_action returns the rule-based action
\* with confidence 0 when there is no model, when the prediction raises and
\* when its confidence is under 0.35, and the model's action with its
\* confidence otherwise; the results step then stores results_ml_used true
\* exactly for a model-chosen action.
C17_FallbackToRules ==
    (call.fn = "recommend_action" /\ ArgIntScores) =>
        /\ call.ret.exc = "none"
        /\ ~ArgModelTrusted =>
              call.ret.val = <<RuleAction[FirstRule], 0>>
        /\ ArgModelTrusted =>
              /\ call.ret.val[2] = arg.pred.conf
              /\ call.ret.val[1] =
                    ACTION_IDS[IF arg.pred.idx < Len(ACTION_IDS) THEN arg.pred.idx + 1 ELSE 1]
        /\ StoreSuggested(InitState, call.ret.val).results_ml_used <=> ArgModelTrusted
        /\ StoreSuggested(InitState, call.ret.val).results_suggested_action = call.ret.val[1]

\* a model one point under the threshold: the rules decide
C17_Witness ==
    /\ call.fn = "recommend_action"
    /\ arg.pipe = "present" /\ ~arg.pred.raises
    /\ arg.pred.conf = MIN_CONFIDENCE - 1 /\ arg.pred.idx = 5
    /\ arg.phq2_score = 0 /\ arg.gad2_score = 0
    /\ arg.feeling_today = "Stressed"
    /\ call.ret = Return(<<"short_walk", 0>>)

\* C18 (as claimed): every non-crisis results run comes to its end and leaves
\* a suggested action id in the session: no exception of the emotion
\* classifier, of recommend_action or of the plan generator ends it.
C18_NoFailurePropagates ==
    (session_state.step = "results" /\ render.step = "results"
        /\ render.branch = "normal") =>
        /\ render.error = "none"
        /\ session_state.results_suggested_action # NoneStr

\* what the emotion pipeline did with the text of the call
ArgLabel == LowerStrip(arg.pipe.label)
SIX_LABELS == {"sadness", "joy", "love", "anger", "fear", "surprise"}
ArgTextBlank == arg.text = NoneStr \/ arg.text = "" \/ arg.text = "  "
ArgTextShort == ~ArgTextBlank /\ WordCount(arg.text) < 3
ArgPipeGaveKnownLabel ==
    arg.pipe.loader = "pipe" /\ arg.pipe.out = "row" /\ ArgLabel \in SIX_LABELS

\* C20: predict_emotion returns (None, 0.0) for a None, empty or blank text and
\* for a text under 3 words (the pipeline is not asked), when the pipeline is
\* not available or raises, and when the label is none of the six; otherwise
\* the lower-cased label with the score as the model gave it, under 0.35
\* included.  state_from_emotion_label maps sadness to low_mood, joy and love
\* to ok, anger and surprise to stress, fear to anxiety, anything else to None.
C20_PredictEmotion ==
    /\ call.fn = "predict_emotion" =>
          LET r == call.ret.val
          IN  /\ (ArgTextBlank \/ ArgTextShort) =>
                    r.label = NoneStr /\ r.conf = 0 /\ r.invoked = {}
              /\ (~ArgTextBlank /\ ~ArgTextShort /\ ~ArgPipeGaveKnownLabel) =>
                    r.label = NoneStr /\ r.conf = 0
              /\ (~ArgTextBlank /\ ~ArgTextShort /\ ArgPipeGaveKnownLabel) =>
                    r.label = ArgLabel /\ r.conf = arg.pipe.score
    /\ call.fn = "state_from_emotion_label" =>
          call.ret.val =
              CASE arg.label = "sadness" -> "low_mood"
                [] arg.label \in {"joy", "love"} -> "ok"
                [] arg.label \in {"anger", "surprise"} -> "stress"
                [] arg.label = "fear" -> "anxiety"
                [] OTHER -> NoneStr

\* a label in capitals with a score under the threshold comes back lower-cased
\* with that score
C20_Witness ==
    /\ call.fn = "predict_emotion"
    /\ arg.text = "I feel sad today"
    /\ arg.pipe = Says("JOY ", INFERENCE_MIN_CONFIDENCE - 1)
    /\ call.ret.val.label = "joy" /\ call.ret.val.conf = INFERENCE_MIN_CONFIDENCE - 1

\* the bundle of the run and whether the classifier's answer can be used
RunBundle ==
    get_suggestion(score_phq2(arg.phq2).val[1], score_gad2(arg.gad2).val[1],
                   Some(arg.context))
RunLabel == LowerStrip(arg.emotion.label)
RunTrusted ==
    /\ arg.one_sentence # "" /\ WordCount(arg.one_sentence) >= 3
    /\ arg.emotion.loader = "pipe" /\ arg.emotion.out = "row"
    /\ RunLabel \in SIX_LABELS
    /\ arg.emotion.score >= 35
RunTailoredPair ==
    CASE RunLabel = "sadness" -> EMOTION_TAILORED["low_mood"]
      [] RunLabel \in {"joy", "love"} -> EMOTION_TAILORED["ok"]
      [] RunLabel \in {"anger", "surprise"} -> EMOTION_TAILORED["stress"]
      [] RunLabel = "fear" -> EMOTION_TAILORED["anxiety"]

SummaryWritten ==
    /\ session_state'.saved_summary # <<>>
    /\ session_state'.saved_summary # session_state.saved_summary

\* C21: the summary is kept only on opt-in: saved_summary becomes non-None
\* only in a step that drew the non-crisis results page with save_session
\* true (so it stays None while save_session is never set), a step that draws
\* the crisis page leaves it alone, and after "Clear session data"
\* saved_summary is None and save_session is false.
C21_SummaryOptIn ==
    [][/\ SummaryWritten =>
            /\ render'.step = "results" /\ render'.branch = "normal"
            /\ session_state'.save_session
       /\ render'.branch = "crisis" =>
            session_state'.saved_summary = session_state.saved_summary
       /\ ClearSessionData =>
            /\ session_state'.saved_summary = <<>>
            /\ ~session_state'.save_session]_vars

\* ---------------------------------------------------------------- the feedback export
\* The rows handed to the export: rows as build_feedback_row makes them, the
\* first one possibly without some of its keys and with a key of its own.
MaxCsvRows == 2
MaxHelpedScore == 3
HelpAnswers == {"yes", "a_little", "not_really", "maybe", NoneStr}
MissingKeys == SUBSET {"need_most", "confidence"}

ArgRow ==
    build_feedback_row(arg.phq2_score, 0, arg.feeling_today, NoneStr, NoneStr, NoneStr,
                       "breathing_60s", "reach_out", arg.result_help,
                       arg.ml_used, IF arg.ml_used THEN 80 ELSE 0)
ArgShapedRow ==
    [k \in (DOMAIN ArgRow \ arg.missing)
           \cup (IF arg.extra THEN {"action_completed"} ELSE {}) |->
        IF k = "action_completed" THEN 1 ELSE ArgRow[k]]
ArgRows == [n \in 1..arg.rows |-> IF n = 1 THEN ArgShapedRow ELSE ArgRow]

InitFeedback ==
    /\ arg \in [phq2_score : {None, 4}, feeling_today : {NoneStr, "Overwhelmed"},
                result_help : HelpAnswers, ml_used : BOOLEAN,
                missing : MissingKeys, extra : BOOLEAN, rows : 0..MaxCsvRows,
                helped_score : {None} \cup 0..MaxHelpedScore]
    /\ call = NoCall
    /\ AppIdle

Call_build_feedback_row ==
    /\ call' = [fn |-> "build_feedback_row", ret |-> Return(ArgRow)]
    /\ UNCHANGED <<arg, session_state, render, coping_model>>

Call_feedback_rows_to_csv ==
    /\ call' = [fn |-> "feedback_rows_to_csv", ret |-> Return(feedback_rows_to_csv(ArgRows))]
    /\ UNCHANGED <<arg, session_state, render, coping_model>>

Call_sample_weight ==
    /\ call' = [fn |-> "sample_weight", ret |-> Return(sample_weight(arg.helped_score))]
    /\ UNCHANGED <<arg, session_state, render, coping_model>>

NextFeedback == Call_build_feedback_row \/ Call_feedback_rows_to_csv \/ Call_sample_weight

SpecFeedback == InitFeedback /\ [][NextFeedback]_vars

TWELVE_COLUMNS ==
    <<"timestamp_date", "phq2_score", "gad2_score", "feeling_today", "workload_stress",
      "need_most", "text_emotion_label", "action_suggested", "action_taken",
      "helped_score", "ml_used", "confidence">>

\* C22: build_feedback_row gives helped_score 2 for yes, 1 for a_little, 0 for
\* not_really and 1 for anything else; the export has the twelve columns in
\* their fixed order as its header and, for every row, exactly twelve cells in
\* that order, a missing key giving an empty cell and a key outside the twelve
\* giving none; training weighs helped_score 2, 1, 0 as 2.0, 1.0, 0.25.
C22_FeedbackExportShape ==
    /\ call.fn = "build_feedback_row" =>
          call.ret.val.helped_score =
              CASE arg.result_help = "yes" -> 2
                [] arg.result_help = "a_little" -> 1
                [] arg.result_help = "not_really" -> 0
                [] OTHER -> 1
    /\ call.fn = "feedback_rows_to_csv" =>
          /\ call.ret.val.header = TWELVE_COLUMNS
          /\ Len(call.ret.val.lines) = arg.rows
          /\ \A n \in 1..arg.rows :
                /\ Len(call.ret.val.lines[n]) = 12
                /\ \A i \in 1..12 :
                      IF TWELVE_COLUMNS[i] \in DOMAIN ArgRows[n]
                      THEN call.ret.val.lines[n][i] = ArgRows[n][TWELVE_COLUMNS[i]]
                      ELSE call.ret.val.lines[n][i] = ""
    /\ call.fn = "sample_weight" =>
          /\ arg.helped_score = 2 => call.ret.val = 200
          /\ arg.helped_score = 1 => call.ret.val = 100
          /\ arg.helped_score = 0 => call.ret.val = 25

\* an export of two rows, the first without two of its keys and with a key
\* outside the twelve, built from an answer that is none of the three
C22_Witness ==
    /\ call.fn = "feedback_rows_to_csv"
    /\ arg.rows = 2 /\ arg.missing = {"need_most", "confidence"} /\ arg.extra
    /\ arg.result_help = "maybe"
    /\ call.ret.val.lines[1][12] = ""
    /\ call.ret.val.lines[2][10] = 1

\* ---------------------------------------------------------------- a visit of the results page
\* The behaviours that start where the patience game hands over to the
\* results page, followed for MaxVisitReruns interactions: the answers are two
\* per instrument, the context is the one the weather tile left, self_harm is
\* "No".
VisitAnswers == {<<0, 0>>, <<3, 3>>}
VisitWeathers == {"Stormy", "Clear"}
VisitEntry(a) ==
    [InitState EXCEPT !.step = "patience_game", !.phq2 = a.phq2, !.gad2 = a.gad2,
                      !.inner_weather = a.weather,
                      !.context = Put(EmptyDict, "feeling_today", WEATHER_TO_CONTEXT[a.weather]),
                      !.self_harm = "No", !.save_session = a.save_session]
VisitEntries ==
    {VisitEntry(a) : a \in [phq2 : VisitAnswers, gad2 : {<<0, 0>>},
                            weather : VisitWeathers, save_session : BOOLEAN]}

InitVisit ==
    /\ coping_model \in {"absent", "present"}
    /\ arg = <<"visit">>
    /\ call = NoCall
    /\ \E entry \in VisitEntries, pred \in Predictions :
          /\ coping_model = "absent" => pred.raises
          /\ session_state = Go(entry, "results", [Quiet EXCEPT !.pred = pred]).ss
          /\ render = Go(entry, "results", [Quiet EXCEPT !.pred = pred]).log

NextVisit ==
    \/ StartNow
    \/ ToggleFeedbackOptIn
    \/ SelectDeepFeeling
    \/ SelectWorkload
    \/ TypeOneSentence
    \/ UpdateSuggestions
    \/ ShowGrounding
    \/ StartOver

SpecVisit == InitVisit /\ [][NextVisit]_vars

\* the bundle of the answers and the context the session holds now
StoredBundle ==
    get_suggestion(score_phq2(Prefix2(session_state.phq2)).val[1],
                   score_gad2(Prefix2(session_state.gad2)).val[1],
                   Some(session_state.context))
\* the step draws the non-crisis results page to its end
DrawsNormalResults ==
    render'.step = "results" /\ render'.branch = "normal" /\ render'.error = "none"

\* C23 as stated: every run of the non-crisis results page scores the stored
\* answers and makes the bundle from the stored context, and no understanding
\* or next steps on the page, the "Updated suggestion" block included, come
\* from a bundle of an earlier run.
C23_NothingFromEarlierBundle ==
    [][DrawsNormalResults =>
          /\ {"score_phq2", "score_gad2", "get_suggestion"} \subseteq render'.calls
          /\ render'.display.next_steps = StoredBundle.next_steps
          /\ ~render'.display.ml_used =>
                render'.display.understanding = StoredBundle.understanding
          /\ render'.display.updated # <<>> =>
                render'.display.updated[1].next_steps = StoredBundle.next_steps]_vars

\* C23 amended: every run of the non-crisis results page scores the stored
\* answers and makes the bundle from the stored context; the understanding
\* (unless tailored from the sentence) and the optional next steps of the
\* panel are those of that bundle, while the "Updated suggestion" block shows
\* the bundle the last "Update suggestions" click stored.
C23_PanelRecomputed ==
    [][DrawsNormalResults =>
          /\ {"score_phq2", "score_gad2", "get_suggestion"} \subseteq render'.calls
          /\ render'.display.next_steps = StoredBundle.next_steps
          /\ ~render'.display.ml_used =>
                render'.display.understanding = StoredBundle.understanding
          /\ render'.display.updated = UpdatedBlock(session_state'.deep_suggestion)]_vars

\* a page drawn after the workload changed the band, still showing the
\* suggestion stored before the change
C23_Witness ==
    /\ NormalPage
    /\ render.display.next_steps = SUGGESTION_ENGINE["burnout"].next_steps
    /\ render.display.updated # <<>>
    /\ render.display.updated[1].next_steps # render.display.next_steps

\* ---------------------------------------------------------------- the flow of a check-in
SelfHarmValues == {"No", "Yes", "Prefer not to say"}
Enters(step) == session_state'.step = step /\ session_state.step # step

\* C24: the results step is entered only from the safety step with self_harm
\* "Yes", and then on its crisis branch, or from the patience game; the
\* patience game is entered only from the safety step with a self_harm other
\* than "Yes"; on the safety, patience game and results steps self_harm is one
\* of No, Yes, Prefer not to say, never unset.
C24_FlowAroundCrisisGate ==
    /\ [](session_state.step \in {"safety", "patience_game", "results"}
            => session_state.self_harm \in SelfHarmValues)
    /\ [][/\ Enters("results") =>
                \/ /\ session_state.step = "safety"
                   /\ session_state.self_harm = "Yes"
                   /\ session_state'.self_harm = "Yes"
                   /\ render'.branch = "crisis"
                \/ /\ session_state.step = "patience_game"
                   /\ session_state'.self_harm = session_state.self_harm
          /\ Enters("patience_game") =>
                /\ session_state.step = "safety"
                /\ session_state.self_harm # "Yes"
                /\ session_state'.self_harm = session_state.self_harm]_vars

\* the results drawn after "Prefer not to say" and a skipped patience game
C24_Witness ==
    /\ NormalPage
    /\ session_state.self_harm = "Prefer not to say"
    /\ session_state.game_clicks = 0
    /\ render.reruns = 0

\* the bands get_suggestion can be seen to choose
LIVE_BANDS == {"burnout", "elevated_anxiety", "elevated_mood", "minimal"}

\* C25: for scores absent or 0..6 and every context, get_suggestion gives the
\* action and next steps of one of burnout, elevated_anxiety, elevated_mood,
\* minimal, and never those of the generic `elevated` band.
C25_ElevatedBandUnreachable ==
    call.fn = "get_suggestion" =>
        /\ \E band \in LIVE_BANDS : IsBand(call.ret.val, band)
        /\ call.ret.val.action # SUGGESTION_ENGINE["elevated"].action
        /\ call.ret.val.next_steps # SUGGESTION_ENGINE["elevated"].next_steps

\* both scores at their highest and no context: the mood band, not `elevated`
C25_Witness ==
    /\ call.fn = "get_suggestion"
    /\ arg.phq2_score = 6 /\ arg.gad2_score = 6
    /\ arg.context = NoneCtx
    /\ IsBand(call.ret.val, "elevated_mood")

\* ---------------------------------------------------------------- the feedback rows
RowsNow == session_state.feedback_rows
RowsNext == session_state'.feedback_rows
ActionIds == {ACTION_IDS[i] : i \in 1..Len(ACTION_IDS)}
\* a step adds rows only like this: one row, at the end, of an action started
\* and answered on the non-crisis results page with the box ticked
RowAppendedOnOptIn ==
    Len(RowsNext) > Len(RowsNow) =>
        /\ RowsNext = Append(RowsNow, RowsNext[Len(RowsNext)])
        /\ session_state.feedback_opt_in
        /\ render'.step = "results" /\ render'.branch = "normal"
        /\ session_state'.result_help \in DOMAIN HELPED_SCORE_MAP
        /\ RowsNext[Len(RowsNext)].action_taken \in ActionIds
        /\ RowsNext[Len(RowsNext)].helped_score = HELPED_SCORE_MAP[session_state'.result_help]
        /\ session_state'.results_action_taken = NoneStr

\* C26 as stated: a row is appended only on the non-crisis results page, for
\* a started action with its "Did this help?" answer and with feedback_opt_in
\* true, one row per started action; while feedback_opt_in is false no
\* interaction changes feedback_rows.
C26_RowsUnchangedWithoutOptIn ==
    [][/\ RowAppendedOnOptIn
       /\ ~session_state.feedback_opt_in => RowsNext = RowsNow]_vars

\* C26 amended: as above, but while feedback_opt_in is false an interaction
\* leaves feedback_rows as it is or, being "Start over", empties it.
C26_NoRowWithoutOptIn ==
    [][/\ RowAppendedOnOptIn
       /\ ~session_state.feedback_opt_in =>
             \/ RowsNext = RowsNow
             \/ RowsNext = <<>> /\ session_state'.step = "intro"
                                /\ session_state.step = "results"]_vars

\* a row of an opted-in visit is on the page that follows the answer
C26_Witness ==
    /\ NormalPage
    /\ session_state.feedback_opt_in
    /\ Len(session_state.feedback_rows) = 1
    /\ session_state.feedback_rows[1].action_taken = "reach_out"
    /\ session_state.result_help = "yes"
    /\ session_state.results_action_taken = NoneStr

\* ---------------------------------------------------------------- the stored answers
TwoAnswers(answers) ==
    Len(answers) = 2 /\ \A i \in 1..2 : answers[i] \in 0..4

\* C27: on the safety, patience game and results steps the stored phq2 and
\* gad2 lists have exactly two entries each, every entry in 0..4, so no run of
\* the results step ends in the wrong-length error of score_phq2 or score_gad2.
C27_TwoAnswersEach ==
    /\ session_state.step \in {"safety", "patience_game", "results"} =>
          TwoAnswers(session_state.phq2) /\ TwoAnswers(session_state.gad2)
    /\ render.step = "results" => render.error # "ValueError"

\* the safety step of a check-in that follows a "Start over", with answers
\* picked on three of the four pages
C27_Witness ==
    /\ OnPage("safety")
    /\ session_state.phq2 = <<PREFER_NOT_ANSWER, NEARLY_EVERY_DAY>>
    /\ session_state.gad2 = <<0, PREFER_NOT_ANSWER>>
    /\ session_state.saved_summary # <<>>

\* ---------------------------------------------------------------- Start over
\* the step leaves the non-crisis results page for the intro page, which only
\* "Start over" does
StartsOver ==
    /\ session_state.step = "results" /\ render.branch = "normal"
    /\ session_state'.step = "intro"

Suggested(s) ==
    <<s.results_suggested_action, s.results_ml_used, s.results_ml_confidence>>
NothingSuggested == <<NoneStr, FALSE, 0>>

\* C29: the suggested action is set by a non-crisis results run that finds
\* none stored; once set, it, results_ml_used and results_ml_confidence stay
\* as they are through every later step until "Start over" puts them back to
\* their defaults; a step that draws the crisis page leaves them alone.
C29_SuggestedOncePerCheckIn ==
    [][/\ session_state.results_suggested_action # NoneStr =>
             IF StartsOver
             THEN Suggested(session_state') = NothingSuggested
             ELSE Suggested(session_state') = Suggested(session_state)
       /\ Suggested(session_state') # Suggested(session_state)
          /\ session_state.results_suggested_action = NoneStr =>
             /\ render'.step = "results" /\ render'.branch = "normal"
             /\ session_state'.results_suggested_action \in ActionIds
             /\ "recommend_action" \in render'.calls
       /\ render'.branch = "crisis" =>
             Suggested(session_state') = Suggested(session_state)]_vars

\* the page after the workload was changed in "go deeper", with the action
\* the coping model suggested when the page was entered
C29_Witness ==
    /\ NormalPage
    /\ render.reruns = 1
    /\ Get(session_state.context, "workload_stress") = "Overwhelming"
    /\ session_state.results_suggested_action = "reach_out"
    /\ session_state.results_ml_used
    /\ "recommend_action" \notin render.calls

\* ---------------------------------------------------------------- the step machine
STEPS ==
    {"intro", "breathing_game", "memory_game", "shell_game", "support_now",
     "support_now_plan", "support_now_breathing", "support_now_grounding",
     "inner_weather", "mood_0", "mood_1", "worry_0", "worry_1", "safety",
     "patience_game", "results"}

\* C30: the step is always one of the sixteen steps, and no reachable state is
\* a dead end: away from the intro step the page offers some interaction, the
\* first of a way back to intro.
C30_ClosedNoDeadEnd ==
    /\ session_state.step \in STEPS
    /\ session_state.step # "intro" => ENABLED Next

====
